---- MODULE Spec2Model ----
(***************************************************************************)
(* Bridge router of actionbook-rs (browser/extension_bridge.rs): one       *)
(* shared BridgeState behind a mutex, one task per accepted connection.    *)
(* Every action below is one code section between two suspension points of *)
(* a task (an .await on the mutex, on a socket or on the reply slot).       *)
(*                                                                          *)
(* An Option<T> is a sequence of length 0 (None) or 1 (Some).  A JSON frame *)
(* is a record; a member that may be absent is an Option.                   *)
(***************************************************************************)
EXTENDS Integers, Sequences, FiniteSets, TLC

\* ------------------------------------------------------------------ bounds
MaxSessions == 2
MaxExtensions == 1
\* Runs of the stop command, one after the other.
MaxStops == 2

Sessions == 1..MaxSessions
Extensions == 1..MaxExtensions

\* ---------------------------------------------------------------- constants
\* The token the serve command generates for this run of the bridge.
SessionToken == "T"
\* Tokens a first frame may carry: absent, the session token, another one.
Tokens == {<<>>, <<SessionToken>>, <<"X">>}
\* Ids a caller may put in its first frame: absent, or a JSON number.
CallerIds == {<<>>, <<7>>}
Methods == {"Extension.ping"}

ErrorCode == -32000
MsgNotConnected == "Extension not connected"
MsgDisconnected == "Extension disconnected"
MsgTimedOut == "Extension command timed out (30s)"
MsgLost == "Extension connection lost"

\* ------------------------------------------------------------------- frames
\* {"id": id, "result": r}
ResultFrame(id, r) == [id |-> id, result |-> <<r>>, error |-> <<>>]
\* {"id": id, "error": {"code": -32000, "message": m}}
ErrorFrame(id, m) ==
    [id |-> id, result |-> <<>>, error |-> <<[code |-> ErrorCode, message |-> m]>>]
\* {"id": request_id, "method": method, "params": params}
CommandFrame(id, method) == [id |-> id, method |-> method]

VARIABLES
    listening,      \* the TcpListener of serve is bound and accepting
    extension_tx,   \* BridgeState.extension_tx: Option of the extension whose channel it is
    pending,        \* BridgeState.pending: set of <<RequestId, session owning the reply slot>>
    next_id,        \* BridgeState.next_id
    pc,             \* position of each caller task
    first,          \* first frame of each caller connection
    request_id,     \* local request_id of handle_cli_client (Option)
    response,       \* the oneshot slot response_tx/response_rx of each caller (Option)
    out,            \* frames written to each caller's socket
    epc,            \* position of each extension task
    efirst,         \* first frame of each extension connection
    chan,           \* the mpsc queue tx/rx of each extension connection
    written,        \* command frames the write pump has written to each extension's socket
    frame,          \* the text frame the read loop of each extension task holds (Option)
    token_file,     \* per scope, the token record (Option of a token)
    port_file,      \* per scope, the port record (Option of a port)
    pid_file,       \* per scope, the pid record (Option of [pid, port])
    alive,          \* the pids of the processes that exist
    signals,        \* the signals sent with kill(pid, sig), in order
    opc,            \* position of serve_isolated
    already_running,\* local already_running of serve_isolated
    child,          \* local child of serve_isolated (Option of the browser's pid)
    pipe,           \* holder of the write end of the browser's command pipe
    eof,            \* the browser has read end-of-input on its command pipe
    singleton_lock, \* the profile directory holds a SingletonLock
    cdp_up,         \* the debugging port answers /json/version with success
    standard_alive, \* local standard_alive of serve_isolated
    shutdown_sent,  \* shutdown_tx.send(()) has been called
    btask,          \* state of the spawned bridge task behind bridge_handle
    bresult,        \* what awaiting bridge_handle yields (Option)
    probes,         \* loop counter of wait_for_bridge
    loaded,         \* outcome of the loadExtension exchange
    ext_id,         \* local ext_id_for_injection (Option)
    injected,       \* outcome of the token injection step
    reason,         \* local reason of serve_isolated (Option of a ShutdownReason)
    result,         \* the value serve_isolated returned (Option)
    scpc,           \* position of the standard serve command
    isolated_alive, \* local isolated_alive of the standard serve command
    stpc,           \* position of the stop command
    resolved,       \* local resolved of stop (Option of [pid, is_isolated])
    status,         \* what the stop commands reported, in order
    stops,          \* number of stop commands started so far
    owner,          \* the process that holds the listener on the port stop is given (Option)
    rdpc,           \* position of load_extension / read_null_terminated_response
    buf_len,        \* buf.len() of read_null_terminated_response
    consumed,       \* what the calls of reader.read returned so far, in order
    payload,        \* the bytes of buf once the terminating NUL is read (Option)
    load_result,    \* what load_extension returned (Option)
    tpc,            \* position of inject_token_existing
    targets,        \* the target listing /json/list answers with
    found,          \* what find_any_extension_service_worker returned (Option)
    evaluated,      \* the targets a script was evaluated in, in order
    evpc,           \* position of evaluate_in_target
    ws_stream,      \* the WebSocket to the target: none, open, closed, dropped
    inbox,          \* what ws_stream.next() yielded so far, in order
    timed,          \* what tokio::time::timeout returned (Option)
    eval_result     \* what evaluate_in_target returned (Option)

bridgeVars == <<listening, extension_tx, pending, next_id>>
cliVars == <<pc, first, request_id, response, out>>
extVars == <<epc, efirst, chan, written, frame>>
\* The records on disk and the processes of the machine.
storeVars == <<token_file, port_file, pid_file>>
osVars == <<alive, signals>>
\* serve_isolated, the bridge task it spawns and the browser it launches.
isoVars == <<opc, already_running, child, pipe, eof, singleton_lock, cdp_up, standard_alive,
             shutdown_sent, btask, bresult, probes, loaded, ext_id, injected, reason, result>>
\* The standard serve command and the stop command.
serveVars == <<scpc, isolated_alive>>
stopVarsLocal == <<stpc, resolved, status, stops>>
stopVars == <<stopVarsLocal, owner>>
\* The pipe reader of load_extension and the target lookup of inject_token_existing.
pipeVars == <<rdpc, buf_len, consumed, payload, load_result>>
targetVars == <<tpc, targets, found, evaluated>>
evalVars == <<evpc, ws_stream, inbox, timed, eval_result>>
toolVars == <<pipeVars, targetVars, evalVars>>
hostVars == <<storeVars, osVars, isoVars, serveVars, stopVars, toolVars>>

vars == <<listening, extension_tx, pending, next_id, pc, first, request_id, response,
          out, epc, efirst, chan, written, frame, hostVars>>

NoFrame == [type |-> "", id |-> <<>>, token |-> <<>>, method |-> ""]

\* ------------------------------------------------------------ host constants
Scopes == {"standard", "isolated"}
\* The port the commands are given, and another one.
BridgePort == "port"
OtherPort == "other port"
Ports == {BridgePort, OtherPort}
\* Process ids: of the standard serve command, of serve_isolated, of the browser
\* it launches; 0 is what a pid record that does not parse as a pid holds.
StdPid == 1
IsoPid == 2
ChromePid == 3
InvalidPid == 0
\* The pid in the records a dead bridge left behind.
StalePid == 4
\* Tokens of the standard bridge and of an earlier isolated run.
StdToken == "S"
StaleToken == "old"
ExtensionId == "ext"
\* wait_for_bridge: for _ in 0..20
MaxProbes == 20
PreflightOutcomes == {"ok", "not installed", "setup failed"}
LoadFailures == {"error", "panic", "timeout"}

MsgNotInstalled == "Extension not installed. Run 'actionbook extension install' first."
MsgSetupFailed == "extension_dir or from_profile failed"
MsgLaunchFailed == "launch_and_wait failed"
MsgTokenWriteFailed == "write_isolated_token_file failed"
MsgBridgeTimeout == "Timeout waiting for bridge server to start"
MsgBindFailed == "Failed to bind"
MsgAcceptFailed == "Accept failed"
MsgBridgePanicked == "Bridge task panicked"
MsgLoadFailed(how) ==
    IF how = "error" THEN "Failed to load extension via CDP pipe"
    ELSE IF how = "panic" THEN "Extension loading task panicked"
    ELSE "Timed out loading extension via CDP pipe (30s)"
\* A pid record: "<pid>:<port>".
PidRecord(pid, port) == [pid |-> pid, port |-> port]
NoRecords == [sc \in Scopes |-> <<>>]

\* Result<()> of the bridge and of serve_isolated.
OkUnit == [ok |-> TRUE, err |-> ""]
Err(e) == [ok |-> FALSE, err |-> e]
\* Result<Result<()>, JoinError> of awaiting bridge_handle.
Joined(r) == [panicked |-> FALSE, inner |-> r]
Panicked == [panicked |-> TRUE, inner |-> OkUnit]

\* evaluate_in_target is not running.
EvalIdle ==
    /\ evpc = "off"
    /\ ws_stream = "none"
    /\ inbox = <<>>
    /\ timed = <<>>
    /\ eval_result = <<>>

\* No pipe exchange and no target lookup is under way.
ToolIdle ==
    /\ rdpc = "off"
    /\ buf_len = 0
    /\ consumed = <<>>
    /\ payload = <<>>
    /\ load_result = <<>>
    /\ tpc = "off"
    /\ targets = <<>>
    /\ found = <<>>
    /\ evaluated = <<>>
    /\ EvalIdle

\* No command is running: nothing on disk, no process, every local unset.
CommandsIdle ==
    /\ token_file = NoRecords
    /\ port_file = NoRecords
    /\ pid_file = NoRecords
    /\ alive = {}
    /\ signals = <<>>
    /\ opc = "off"
    /\ already_running = FALSE
    /\ child = <<>>
    /\ pipe = "none"
    /\ eof = FALSE
    /\ singleton_lock = FALSE
    /\ cdp_up = FALSE
    /\ standard_alive = FALSE
    /\ shutdown_sent = FALSE
    /\ btask = "none"
    /\ bresult = <<>>
    /\ probes = 0
    /\ loaded = "none"
    /\ ext_id = <<>>
    /\ injected = "none"
    /\ reason = <<>>
    /\ result = <<>>
    /\ scpc = "off"
    /\ isolated_alive = FALSE
    /\ stpc = "off"
    /\ resolved = <<>>
    /\ status = <<>>
    /\ stops = 0
    /\ owner = <<>>

HostIdle == CommandsIdle /\ ToolIdle

\* BridgeState::new and the tasks of the bridge before the first accept, with
\* E the extension connections to come.
RouterInitOf(E) ==
    /\ extension_tx = <<>>
    /\ pending = {}
    /\ next_id = 1
    /\ pc = [s \in Sessions |-> "idle"]
    /\ first = [s \in Sessions |-> NoFrame]
    /\ request_id = [s \in Sessions |-> <<>>]
    /\ response = [s \in Sessions |-> <<>>]
    /\ out = [s \in Sessions |-> <<>>]
    /\ epc = [e \in E |-> "idle"]
    /\ efirst = [e \in E |-> NoFrame]
    /\ chan = [e \in E |-> <<>>]
    /\ written = [e \in E |-> <<>>]
    /\ frame = [e \in E |-> <<>>]

RouterInit == RouterInitOf(Extensions)

\* BridgeState::new and the state of serve before the first accept.
Init ==
    /\ listening = TRUE
    /\ RouterInit
    /\ HostIdle

\* ------------------------------------------------------------------ helpers
\* first_msg.get("id").cloned().unwrap_or(json!(0))
CliId(f) == IF f.id = <<>> THEN 0 ELSE f.id[1]

\* Mutant: the reply is forwarded with the id it arrived with.
RewriteIdKeep(resp, cli_id) == resp

\* resp["id"] = cli_id
RewriteId(resp, cli_id) == [resp EXCEPT !.id = cli_id]

\* Mutant: the counter is not advanced.
NextIdStuck(n) == n

\* s.next_id += 1
NextId(n) == n + 1

\* keys of the pending map
PendingKeys(p) == {x[1] : x \in p}

\* Mutant: the entry stays in the map.
PendingRemoveNone(p, id) == p

\* s.pending.remove(&id): the map without the entry
PendingRemove(p, id) == {x \in p : x[1] # id}

\* s.pending.remove(&id): the sessions whose sender is returned (none or one)
Waiters(p, id) == {x[2] : x \in {y \in p : y[1] = id}}

\* Mutant: the reply slot is not put into the map.
PendingInsertDropped(p, id, s) == p

\* s.pending.insert(request_id, response_tx)
PendingInsert(p, id, s) == PendingRemove(p, id) \cup {<<id, s>>}

\* sender.send(text) on the oneshot of session s: an error (receiver dropped) is ignored.
OneshotSend(resp, s, text) ==
    IF pc[s] = "done" THEN resp ELSE [resp EXCEPT ![s] = <<text>>]

\* resp.get("id").and_then(|i| i.as_u64())
AsU64(id) == IF id >= 0 THEN <<id>> ELSE <<>>

\* is_bridge_running: a plain TCP connect succeeds while the listener is bound.
is_bridge_running == listening

\* The receiver rx of extension e's channel lives in its write pump, which ends
\* on a failed write and by write_handle.abort().
RxAlive(e) == epc[e] = "reading"

\* ext_tx.send(cmd): an error (receiver gone) is ignored.
Enqueue(q, e, cmd) ==
    IF RxAlive(e) THEN [q EXCEPT ![e] = Append(q[e], cmd)] ELSE q

\* ----------------------------------------------------------- caller sessions
\* handle_connection, first frame of a type other than "cli" and "extension"
\* (or no valid first frame): logged, the connection is dropped.
OtherConnect(s) ==
    /\ listening
    /\ pc[s] = "idle"
    /\ \A t \in Sessions : t < s => pc[t] # "idle"
    /\ pc' = [pc EXCEPT ![s] = "done"]
    /\ first' = [first EXCEPT ![s] = [NoFrame EXCEPT !.type = "unknown"]]
    /\ UNCHANGED <<request_id, response, out>>
    /\ UNCHANGED bridgeVars
    /\ UNCHANGED extVars
    /\ UNCHANGED hostVars

\* Mutant: the RequestId is allocated before the extension check.
CliAdmitAllocFirst(s, f) ==
    /\ listening
    /\ pc[s] = "idle"
    /\ \A t \in Sessions : t < s => pc[t] # "idle"
    /\ first' = [first EXCEPT ![s] = f]
    /\ next_id' = NextId(next_id)
    /\ IF extension_tx = <<>>
       THEN /\ out' = [out EXCEPT ![s] = Append(@, ErrorFrame(CliId(f), MsgNotConnected))]
            /\ pc' = [pc EXCEPT ![s] = "done"]
            /\ UNCHANGED <<pending, request_id, chan>>
       ELSE /\ request_id' = [request_id EXCEPT ![s] = <<next_id>>]
            /\ pending' = PendingInsert(pending, next_id, s)
            /\ chan' = Enqueue(chan, extension_tx[1], CommandFrame(next_id, f.method))
            /\ pc' = [pc EXCEPT ![s] = "waiting"]
            /\ UNCHANGED out
    /\ UNCHANGED <<listening, extension_tx, response>>
    /\ UNCHANGED <<epc, efirst, written, frame>>
    /\ UNCHANGED hostVars

\* handle_connection with a first frame f of type "cli", then handle_cli_client
\* through its critical section (lock taken .. lock released).
CliAdmit(s, f) ==
    /\ listening
    /\ pc[s] = "idle"
    /\ \A t \in Sessions : t < s => pc[t] # "idle"
    /\ first' = [first EXCEPT ![s] = f]
    /\ IF extension_tx = <<>>
       THEN /\ out' = [out EXCEPT ![s] = Append(@, ErrorFrame(CliId(f), MsgNotConnected))]
            /\ pc' = [pc EXCEPT ![s] = "done"]
            /\ UNCHANGED <<next_id, pending, request_id, chan>>
       ELSE /\ request_id' = [request_id EXCEPT ![s] = <<next_id>>]
            /\ next_id' = NextId(next_id)
            /\ pending' = PendingInsert(pending, next_id, s)
            /\ chan' = Enqueue(chan, extension_tx[1], CommandFrame(next_id, f.method))
            /\ pc' = [pc EXCEPT ![s] = "waiting"]
            /\ UNCHANGED out
    /\ UNCHANGED <<listening, extension_tx, response>>
    /\ UNCHANGED <<epc, efirst, written, frame>>
    /\ UNCHANGED hostVars

\* Mutant: the reply arm falls through to the timeout arm's send.
CliReplyNoReturn(s) ==
    /\ pc[s] = "waiting"
    /\ response[s] # <<>>
    /\ out' = [out EXCEPT ![s] = Append(@, RewriteId(response[s][1], CliId(first[s])))]
    /\ pc' = [pc EXCEPT ![s] = "expired"]
    /\ UNCHANGED <<first, request_id, response>>
    /\ UNCHANGED bridgeVars
    /\ UNCHANGED extVars
    /\ UNCHANGED hostVars

\* timeout(30s, response_rx) returns Ok(Ok(resp_str)): rewrite the id, send, return.
CliReply(s) ==
    /\ pc[s] = "waiting"
    /\ response[s] # <<>>
    /\ out' = [out EXCEPT ![s] = Append(@, RewriteId(response[s][1], CliId(first[s])))]
    /\ pc' = [pc EXCEPT ![s] = "done"]
    /\ UNCHANGED <<first, request_id, response>>
    /\ UNCHANGED bridgeVars
    /\ UNCHANGED extVars
    /\ UNCHANGED hostVars

\* (The arm Ok(Err(_)), "Extension connection lost", needs the sender dropped
\* unsent while the caller waits: every removal from pending either sends or is
\* the caller's own timeout arm, so no step of this bridge reaches it.)

\* timeout(30s, response_rx) returns Err: the deadline passed with the slot empty.
CliTimeout(s) ==
    /\ pc[s] = "waiting"
    /\ response[s] = <<>>
    /\ pc' = [pc EXCEPT ![s] = "timedout"]
    /\ UNCHANGED <<first, request_id, response, out>>
    /\ UNCHANGED bridgeVars
    /\ UNCHANGED extVars
    /\ UNCHANGED hostVars

\* Mutant: the timeout arm leaves the entry in the map.
TimeoutCleanupKeep(p, id) == p

\* The pending map after the timeout arm's critical section.
TimeoutCleanup(p, id) == PendingRemove(p, id)

\* Timeout arm: lock, s.pending.remove(&request_id), drop(s).
CliTimeoutRemove(s) ==
    /\ pc[s] = "timedout"
    /\ pending' = TimeoutCleanup(pending, request_id[s][1])
    /\ pc' = [pc EXCEPT ![s] = "expired"]
    /\ UNCHANGED <<listening, extension_tx, next_id>>
    /\ UNCHANGED <<first, request_id, response, out>>
    /\ UNCHANGED extVars
    /\ UNCHANGED hostVars

\* Timeout arm: send the timeout error, return.
CliTimeoutSend(s) ==
    /\ pc[s] = "expired"
    /\ out' = [out EXCEPT ![s] = Append(@, ErrorFrame(CliId(first[s]), MsgTimedOut))]
    /\ pc' = [pc EXCEPT ![s] = "done"]
    /\ UNCHANGED <<first, request_id, response>>
    /\ UNCHANGED bridgeVars
    /\ UNCHANGED extVars
    /\ UNCHANGED hostVars

\* Mutant: a dropped sender is reported as a timeout.
CliLostAsTimeout(s) ==
    /\ pc[s] = "lost"
    /\ out' = [out EXCEPT ![s] = Append(@, ErrorFrame(CliId(first[s]), MsgTimedOut))]
    /\ pc' = [pc EXCEPT ![s] = "done"]
    /\ UNCHANGED <<first, request_id, response>>
    /\ UNCHANGED bridgeVars
    /\ UNCHANGED extVars
    /\ UNCHANGED hostVars

\* timeout(30s, response_rx) returns Ok(Err(_)), the sender was dropped unsent:
\* send the connection-lost error, return.
CliLost(s) ==
    /\ pc[s] = "lost"
    /\ out' = [out EXCEPT ![s] = Append(@, ErrorFrame(CliId(first[s]), MsgLost))]
    /\ pc' = [pc EXCEPT ![s] = "done"]
    /\ UNCHANGED <<first, request_id, response>>
    /\ UNCHANGED bridgeVars
    /\ UNCHANGED extVars
    /\ UNCHANGED hostVars

\* The steps handle_cli_client takes for session s after its critical section.
SessionStep(s) ==
    CliReply(s) \/ CliLost(s) \/ CliTimeout(s) \/ CliTimeoutRemove(s) \/ CliTimeoutSend(s)

\* ------------------------------------------------------------------ shutdown
\* The positions of the caller tasks once every sender in the pending map p is
\* dropped unsent: a task waiting on its receiver finds it closed.
SendersDropped(p) ==
    [s \in Sessions |->
        IF s \in {x[2] : x \in p} /\ pc[s] = "waiting" /\ response[s] = <<>>
        THEN "lost" ELSE pc[s]]

\* The bridge state after the shutdown signal: the listener is closed, the
\* pending senders are dropped, the extension channel is closed.
ShutdownBridge ==
    /\ listening' = FALSE
    /\ extension_tx' = <<>>
    /\ pending' = {}
    /\ pc' = SendersDropped(pending)
    /\ UNCHANGED <<next_id, first, request_id, response, out>>
    /\ UNCHANGED extVars

\* serve with a shutdown signal: the signal fires while the accept loop runs.
Shutdown ==
    /\ listening
    /\ ShutdownBridge
    /\ UNCHANGED hostVars

\* -------------------------------------------------------- extension clients
\* The channel handle_extension_client stores for extension e.
RegisteredTx(e, f) == <<e>>

\* handle_connection with a first frame f of type "extension", then
\* handle_extension_client: create the channel, store it, spawn the write pump.
ExtRegister(e, f) ==
    /\ listening
    /\ epc[e] = "idle"
    /\ \A d \in DOMAIN epc : d < e => epc[d] # "idle"
    /\ efirst' = [efirst EXCEPT ![e] = f]
    /\ extension_tx' = RegisteredTx(e, f)
    /\ epc' = [epc EXCEPT ![e] = "reading"]
    /\ UNCHANGED <<listening, pending, next_id>>
    /\ UNCHANGED cliVars
    /\ UNCHANGED <<chan, written, frame>>
    /\ UNCHANGED hostVars

\* Mutant: the pump takes the newest queued command.
WritePumpNewestFirst(e) ==
    /\ RxAlive(e)
    /\ chan[e] # <<>>
    /\ written' = [written EXCEPT ![e] = Append(@, chan[e][Len(chan[e])])]
    /\ chan' = [chan EXCEPT ![e] = SubSeq(@, 1, Len(@) - 1)]
    /\ UNCHANGED bridgeVars
    /\ UNCHANGED cliVars
    /\ UNCHANGED <<epc, efirst, frame>>
    /\ UNCHANGED hostVars

\* write_handle: rx.recv() returns a command, write.send() puts it on the socket.
WritePump(e) ==
    /\ RxAlive(e)
    /\ chan[e] # <<>>
    /\ written' = [written EXCEPT ![e] = Append(@, Head(chan[e]))]
    /\ chan' = [chan EXCEPT ![e] = Tail(@)]
    /\ UNCHANGED bridgeVars
    /\ UNCHANGED cliVars
    /\ UNCHANGED <<epc, efirst, frame>>
    /\ UNCHANGED hostVars

\* Read loop: read.next() returns Ok(Message::Text) with the frame
\* {"id": id, "result": id}; an id < 0 stands for a frame without a u64 id.
ExtRecv(e, id) ==
    /\ epc[e] = "reading"
    /\ frame[e] = <<>>
    /\ frame' = [frame EXCEPT ![e] = <<ResultFrame(id, id)>>]
    /\ UNCHANGED bridgeVars
    /\ UNCHANGED cliVars
    /\ UNCHANGED <<epc, efirst, chan, written>>
    /\ UNCHANGED hostVars

\* Mutant: the frame goes to some waiter, whatever its id.
RouteToAny(p, id) == IF id = <<>> THEN {} ELSE {x[2] : x \in p}

\* Mutant: a frame of an unknown id goes to some waiter instead of being dropped.
RouteToFallback(p, id) ==
    IF id = <<>> THEN {}
    ELSE IF Waiters(p, id[1]) # {} THEN Waiters(p, id[1]) ELSE {x[2] : x \in p}

\* The session the frame of id `id` is routed to: pending.remove(&id) (none or one).
RouteTo(p, id) == IF id = <<>> THEN {} ELSE Waiters(p, id[1])

\* Read loop, Ok(Message::Text): lock, route the frame to the pending request of its id.
ExtRoute(e) ==
    /\ epc[e] = "reading"
    /\ frame[e] # <<>>
    /\ LET text == frame[e][1]
           id == AsU64(text.id)
           to == RouteTo(pending, id)
       IN  IF to # {}
           THEN /\ pending' = PendingRemove(pending, id[1])
                /\ response' = OneshotSend(response, CHOOSE s \in to : TRUE, text)
           ELSE UNCHANGED <<pending, response>>
    /\ frame' = [frame EXCEPT ![e] = <<>>]
    /\ UNCHANGED <<listening, extension_tx, next_id>>
    /\ UNCHANGED <<pc, first, request_id, out>>
    /\ UNCHANGED <<epc, efirst, chan, written>>
    /\ UNCHANGED hostVars

\* Read loop: read.next() returns Ok(Message::Close), Err or None: leave the loop.
\* From here on a write to the socket fails, which ends the write pump and drops
\* rx with whatever is queued: a command handed to the channel is never written.
ExtClose(e) ==
    /\ epc[e] = "reading"
    /\ frame[e] = <<>>
    /\ epc' = [epc EXCEPT ![e] = "closing"]
    /\ chan' = [chan EXCEPT ![e] = <<>>]
    /\ UNCHANGED bridgeVars
    /\ UNCHANGED cliVars
    /\ UNCHANGED <<efirst, written, frame>>
    /\ UNCHANGED hostVars

\* The reply slots after s.pending.drain() has sent the disconnect error to each.
Drain(resp, p) ==
    [s \in Sessions |->
        IF s \in {x[2] : x \in p} /\ pc[s] # "done"
        THEN <<ErrorFrame(0, MsgDisconnected)>>
        ELSE resp[s]]

\* Mutant: the clean-up leaves the channel in place.
ClearedTxKeep(tx) == tx

\* s.extension_tx = None
ClearedTx(tx) == <<>>

\* Clean-up of handle_extension_client: lock, drain pending, clear the channel;
\* then write_handle.abort().
ExtCleanup(e) ==
    /\ epc[e] = "closing"
    /\ response' = Drain(response, pending)
    /\ pending' = {}
    /\ extension_tx' = ClearedTx(extension_tx)
    /\ epc' = [epc EXCEPT ![e] = "gone"]
    /\ UNCHANGED <<listening, next_id>>
    /\ UNCHANGED <<pc, first, request_id, out>>
    /\ UNCHANGED <<efirst, chan, written, frame>>
    /\ UNCHANGED hostVars

\* ------------------------------------------------------------- state store
\* delete_*_file of the scope sc: the record is gone (a missing file is no error).
DeleteRecord(f, sc) == [f EXCEPT ![sc] = <<>>]
\* write_*_file of the scope sc.
WriteRecord(f, sc, v) == [f EXCEPT ![sc] = <<v>>]
\* is_pid_alive: the zero-signal probe.
is_pid_alive(pid) == pid \in alive
\* read_pid_file().is_some_and(|(pid, _port)| is_pid_alive(pid)) for the scope sc.
RecordedPidAlive(sc) == pid_file[sc] # <<>> /\ is_pid_alive(pid_file[sc][1].pid)

\* -------------------------------------------------------------- the browser
\* The launched browser exits: closed by the user, crashed, or in answer to a
\* terminate signal.
ChromeExit ==
    /\ ChromePid \in alive
    /\ alive' = alive \ {ChromePid}
    /\ UNCHANGED <<bridgeVars, cliVars, extVars, storeVars, signals, isoVars, serveVars, stopVars, toolVars>>

\* The browser reads end-of-input on its command pipe (every write end is
\* closed) and exits.
ChromeEof ==
    /\ ChromePid \in alive
    /\ pipe = "closed"
    /\ eof' = TRUE
    /\ alive' = alive \ {ChromePid}
    /\ UNCHANGED <<bridgeVars, cliVars, extVars, storeVars, signals, serveVars, stopVars, toolVars>>
    /\ UNCHANGED <<opc, already_running, child, pipe, singleton_lock, cdp_up, standard_alive,
                   shutdown_sent, btask, bresult, probes, loaded, ext_id, injected, reason, result>>

\* The blocking load task, left behind by the 30 s timeout, ends and drops the pipe.
WorkerEnds ==
    /\ pipe = "worker"
    /\ pipe' = "closed"
    /\ UNCHANGED <<bridgeVars, cliVars, extVars, storeVars, osVars, serveVars, stopVars, toolVars>>
    /\ UNCHANGED <<opc, already_running, child, eof, singleton_lock, cdp_up, standard_alive,
                   shutdown_sent, btask, bresult, probes, loaded, ext_id, injected, reason, result>>

\* ------------------------------------------------- the spawned bridge task
\* The bridge task binds its listener (or fails to) and records its port.
BridgeBind(ok) ==
    /\ btask = "spawned"
    /\ IF ok
       THEN /\ listening' = TRUE
            /\ btask' = "serving"
            /\ port_file' = WriteRecord(port_file, "isolated", BridgePort)
            /\ UNCHANGED bresult
       ELSE /\ btask' = "done"
            /\ bresult' = <<Joined(Err(MsgBindFailed))>>
            /\ UNCHANGED <<listening, port_file>>
    /\ UNCHANGED <<extension_tx, pending, next_id, cliVars, extVars>>
    /\ UNCHANGED <<token_file, pid_file, osVars, serveVars, stopVars, toolVars>>
    /\ UNCHANGED <<opc, already_running, child, pipe, eof, singleton_lock, cdp_up, standard_alive,
                   shutdown_sent, probes, loaded, ext_id, injected, reason, result>>

\* The bridge task ends on its own: accept fails (how = "error") or a task
\* panics (how = "panic").  Its exit path removes its port and pid records.
BridgeFail(how) ==
    /\ btask = "serving"
    /\ listening' = FALSE
    /\ UNCHANGED <<extension_tx, pending, next_id, cliVars, extVars>>
    /\ btask' = "done"
    /\ bresult' = IF how = "panic" THEN <<Panicked>> ELSE <<Joined(Err(MsgAcceptFailed))>>
    /\ port_file' = IF how = "panic" THEN port_file ELSE DeleteRecord(port_file, "isolated")
    /\ pid_file' = IF how = "panic" THEN pid_file ELSE DeleteRecord(pid_file, "isolated")
    /\ UNCHANGED <<token_file, osVars, serveVars, stopVars, toolVars>>
    /\ UNCHANGED <<opc, already_running, child, pipe, eof, singleton_lock, cdp_up, standard_alive,
                   shutdown_sent, probes, loaded, ext_id, injected, reason, result>>

\* The bridge task receives the shutdown signal: it stops and removes its
\* port and pid records.
BridgeShutdown ==
    /\ btask = "serving"
    /\ shutdown_sent
    /\ ShutdownBridge
    /\ btask' = "done"
    /\ bresult' = <<Joined(OkUnit)>>
    /\ port_file' = DeleteRecord(port_file, "isolated")
    /\ pid_file' = DeleteRecord(pid_file, "isolated")
    /\ UNCHANGED <<token_file, osVars, serveVars, stopVars, toolVars>>
    /\ UNCHANGED <<opc, already_running, child, pipe, eof, singleton_lock, cdp_up, standard_alive,
                   shutdown_sent, probes, loaded, ext_id, injected, reason, result>>

\* ----------------------------------------------------------- serve_isolated
\* What the frame conditions of the orchestrator's steps leave alone.
IsoFrame == UNCHANGED <<bridgeVars, cliVars, extVars, serveVars, stopVars, toolVars, singleton_lock, cdp_up, eof>>

\* The locals that own the write end of the pipe go out of scope.
DropPipe(p) == IF p \in {"parent", "keepalive"} THEN "closed" ELSE p

\* Mutant: the teardown deletes the records of both scopes.
CleanupRecordsBoth(f) == NoRecords

\* delete_isolated_*_file of the teardown (cleanup step, load-failure unwind).
CleanupRecords(f) == DeleteRecord(f, "isolated")

\* Steps 1-3: the extension must be installed, its directory and the launcher
\* must resolve; any failure returns at once.
IsoPreflight(outcome) ==
    /\ opc = "preflight"
    /\ IF outcome = "ok"
       THEN /\ opc' = "probe"
            /\ UNCHANGED result
       ELSE /\ opc' = "returned"
            /\ result' = <<Err(IF outcome = "not installed" THEN MsgNotInstalled ELSE MsgSetupFailed)>>
    /\ UNCHANGED <<storeVars, osVars>>
    /\ UNCHANGED <<already_running, child, pipe, standard_alive, shutdown_sent, btask, bresult,
                   probes, loaded, ext_id, injected, reason>>
    /\ IsoFrame

\* Mutant: either sign of a running browser is taken for both.
IsolatedChromeRunningEither == singleton_lock \/ cdp_up

\* is_isolated_chrome_running: the profile's SingletonLock exists (symlink_metadata)
\* and the debugging port answers /json/version with success.
is_isolated_chrome_running == singleton_lock /\ cdp_up

\* Step 4: let already_running = is_isolated_chrome_running(..).await
IsoProbe ==
    /\ opc = "probe"
    /\ already_running' = is_isolated_chrome_running
    /\ opc' = "launch"
    /\ UNCHANGED <<storeVars, osVars>>
    /\ UNCHANGED <<child, pipe, standard_alive, shutdown_sent, btask, bresult,
                   probes, loaded, ext_id, injected, reason, result>>
    /\ IsoFrame

\* Step 5, already_running: no browser is launched, child = None.
IsoReuse ==
    /\ opc = "launch"
    /\ already_running
    /\ child' = <<>>
    /\ opc' = "sweep"
    /\ UNCHANGED <<storeVars, osVars>>
    /\ UNCHANGED <<already_running, pipe, standard_alive, shutdown_sent, btask, bresult,
                   probes, loaded, ext_id, injected, reason, result>>
    /\ IsoFrame

\* Step 5, otherwise: launch_and_wait()?, stash launch_result.cdp_pipe.take()
\* (an Option: has_pipe), child = Some(launch_result.child).
IsoLaunch(ok, has_pipe) ==
    /\ opc = "launch"
    /\ ~already_running
    /\ IF ok
       THEN /\ child' = <<ChromePid>>
            /\ alive' = alive \cup {ChromePid}
            /\ pipe' = IF has_pipe THEN "parent" ELSE "none"
            /\ opc' = "sweep"
            /\ UNCHANGED result
       ELSE /\ opc' = "returned"
            /\ result' = <<Err(MsgLaunchFailed)>>
            /\ UNCHANGED <<child, alive, pipe>>
    /\ UNCHANGED <<storeVars, signals>>
    /\ UNCHANGED <<already_running, standard_alive, shutdown_sent, btask, bresult,
                   probes, loaded, ext_id, injected, reason>>
    /\ IsoFrame

\* Step 6: delete the isolated port and token records, then probe the
\* standard scope's recorded pid.
IsoSweepProbe ==
    /\ opc = "sweep"
    /\ port_file' = DeleteRecord(port_file, "isolated")
    /\ token_file' = DeleteRecord(token_file, "isolated")
    /\ standard_alive' = RecordedPidAlive("standard")
    /\ opc' = "sweep_other"
    /\ UNCHANGED <<pid_file, osVars>>
    /\ UNCHANGED <<already_running, child, pipe, shutdown_sent, btask, bresult,
                   probes, loaded, ext_id, injected, reason, result>>
    /\ IsoFrame

\* if !other_alive { delete the record of scope sc }
SweepOther(f, other_alive, sc) == IF other_alive THEN f ELSE DeleteRecord(f, sc)

\* Step 6: if !standard_alive, delete the standard port, token and pid records.
IsoSweepOther ==
    /\ opc = "sweep_other"
    /\ port_file' = SweepOther(port_file, standard_alive, "standard")
    /\ token_file' = SweepOther(token_file, standard_alive, "standard")
    /\ pid_file' = SweepOther(pid_file, standard_alive, "standard")
    /\ opc' = "records"
    /\ UNCHANGED osVars
    /\ UNCHANGED <<already_running, child, pipe, standard_alive, shutdown_sent, btask, bresult,
                   probes, loaded, ext_id, injected, reason, result>>
    /\ IsoFrame

\* Steps 6b-7: write_isolated_token_file(&token).await? (a failure returns at
\* once), write_isolated_pid_file (a failure is only reported), then create the
\* shutdown channel and spawn the bridge task.
IsoWriteRecords(token_ok, pid_ok) ==
    /\ opc = "records"
    /\ IF token_ok
       THEN /\ token_file' = WriteRecord(token_file, "isolated", SessionToken)
            /\ pid_file' = IF pid_ok
                           THEN WriteRecord(pid_file, "isolated", PidRecord(IsoPid, BridgePort))
                           ELSE pid_file
            /\ btask' = "spawned"
            /\ opc' = "wait_bridge"
            /\ UNCHANGED <<result, pipe>>
       ELSE /\ opc' = "returned"
            /\ result' = <<Err(MsgTokenWriteFailed)>>
            /\ pipe' = DropPipe(pipe)
            /\ UNCHANGED <<token_file, pid_file, btask>>
    /\ UNCHANGED <<port_file, osVars>>
    /\ UNCHANGED <<already_running, child, standard_alive, shutdown_sent, bresult,
                   probes, loaded, ext_id, injected, reason>>
    /\ IsoFrame

\* Mutant: the readiness wait sleeps once and goes on without the probe's answer.
IsoWaitBridgeUnprobed ==
    /\ opc = "wait_bridge"
    /\ opc' = "load"
    /\ UNCHANGED <<probes, result, pipe>>
    /\ UNCHANGED <<storeVars, osVars>>
    /\ UNCHANGED <<already_running, child, standard_alive, shutdown_sent, btask, bresult,
                   loaded, ext_id, injected, reason>>
    /\ IsoFrame

\* Step 8, wait_for_bridge: one round of the loop (probe, else sleep 100 ms);
\* after the last round the error is returned through `?`.
IsoWaitBridge ==
    /\ opc = "wait_bridge"
    /\ IF is_bridge_running
       THEN /\ opc' = "load"
            /\ UNCHANGED <<probes, result, pipe>>
       ELSE IF probes + 1 < MaxProbes
            THEN /\ probes' = probes + 1
                 /\ UNCHANGED <<opc, result, pipe>>
            ELSE /\ probes' = probes + 1
                 /\ opc' = "returned"
                 /\ result' = <<Err(MsgBridgeTimeout)>>
                 /\ pipe' = DropPipe(pipe)
    /\ UNCHANGED <<storeVars, osVars>>
    /\ UNCHANGED <<already_running, child, standard_alive, shutdown_sent, btask, bresult,
                   loaded, ext_id, injected, reason>>
    /\ IsoFrame

\* Mutant: with nothing loaded the injection step is passed over.
IsoLoadSkipsInjection ==
    /\ opc = "load"
    /\ pipe # "parent"
    /\ opc' = "running"
    /\ UNCHANGED <<storeVars, osVars>>
    /\ UNCHANGED <<already_running, child, pipe, standard_alive, shutdown_sent, btask, bresult,
                   probes, loaded, ext_id, injected, reason, result>>
    /\ IsoFrame

\* Step 9 without a stashed pipe: nothing is loaded.
IsoLoadSkip ==
    /\ opc = "load"
    /\ pipe # "parent"
    /\ opc' = "inject"
    /\ UNCHANGED <<storeVars, osVars>>
    /\ UNCHANGED <<already_running, child, pipe, standard_alive, shutdown_sent, btask, bresult,
                   probes, loaded, ext_id, injected, reason, result>>
    /\ IsoFrame

\* Mutant: the PipeKeepAlive is not kept (let (ext_id, _) = pair).
IsoLoadOkDropsKeepAlive ==
    /\ opc = "load"
    /\ pipe = "parent"
    /\ loaded' = "ok"
    /\ pipe' = "closed"
    /\ ext_id' = <<ExtensionId>>
    /\ opc' = "inject"
    /\ UNCHANGED <<storeVars, osVars>>
    /\ UNCHANGED <<already_running, child, standard_alive, shutdown_sent, btask, bresult,
                   probes, injected, reason, result>>
    /\ IsoFrame

\* Step 9, load succeeded: keep the PipeKeepAlive and the extension id.
IsoLoadOk ==
    /\ opc = "load"
    /\ pipe = "parent"
    /\ loaded' = "ok"
    /\ pipe' = "keepalive"
    /\ ext_id' = <<ExtensionId>>
    /\ opc' = "inject"
    /\ UNCHANGED <<storeVars, osVars>>
    /\ UNCHANGED <<already_running, child, standard_alive, shutdown_sent, btask, bresult,
                   probes, injected, reason, result>>
    /\ IsoFrame

\* Step 9, load failed (how: "error", "panic" or "timeout"): signal shutdown,
\* delete the isolated records, then terminate the launched browser.
IsoLoadFail(how) ==
    /\ opc = "load"
    /\ pipe = "parent"
    /\ loaded' = how
    /\ pipe' = IF how = "timeout" THEN "worker" ELSE "closed"
    /\ shutdown_sent' = TRUE
    /\ token_file' = CleanupRecords(token_file)
    /\ port_file' = CleanupRecords(port_file)
    /\ pid_file' = CleanupRecords(pid_file)
    /\ opc' = IF child # <<>> THEN "term" ELSE "return"
    /\ UNCHANGED osVars
    /\ UNCHANGED <<already_running, child, standard_alive, btask, bresult,
                   probes, ext_id, injected, reason, result>>
    /\ IsoFrame

\* Mutant: a failed injection unwinds like a failed load.
IsoInjectFatal(ok) ==
    /\ opc = "inject"
    /\ IF ext_id # <<>> \/ already_running
       THEN injected' = IF ok THEN "ok" ELSE "failed"
       ELSE injected' = "skipped"
    /\ IF ok \/ ~(ext_id # <<>> \/ already_running)
       THEN /\ opc' = "running"
            /\ UNCHANGED <<storeVars, shutdown_sent>>
       ELSE /\ shutdown_sent' = TRUE
            /\ token_file' = DeleteRecord(token_file, "isolated")
            /\ port_file' = DeleteRecord(port_file, "isolated")
            /\ pid_file' = DeleteRecord(pid_file, "isolated")
            /\ opc' = IF child # <<>> THEN "term" ELSE "return"
    /\ UNCHANGED osVars
    /\ UNCHANGED <<already_running, child, pipe, standard_alive, btask, bresult,
                   probes, loaded, ext_id, reason, result>>
    /\ IsoFrame

\* Step 10: inject_token_via_cdp when the extension id is known, else
\* inject_token_existing when the browser is reused; a failure is only
\* reported.  Then the browser monitor is spawned and the multi-way wait begins.
IsoInject(ok) ==
    /\ opc = "inject"
    /\ IF ext_id # <<>> \/ already_running
       THEN injected' = IF ok THEN "ok" ELSE "failed"
       ELSE injected' = "skipped"
    /\ opc' = "running"
    /\ UNCHANGED <<storeVars, osVars>>
    /\ UNCHANGED <<already_running, child, pipe, standard_alive, shutdown_sent, btask, bresult,
                   probes, loaded, ext_id, reason, result>>
    /\ IsoFrame

\* Step 12, select!: bridge_handle completes.
IsoBridgeExited ==
    /\ opc = "running"
    /\ btask = "done"
    /\ reason' = <<[kind |-> "BridgeExited", r |-> bresult[1]]>>
    /\ opc' = "cleanup"
    /\ UNCHANGED <<storeVars, osVars>>
    /\ UNCHANGED <<already_running, child, pipe, standard_alive, shutdown_sent, btask, bresult,
                   probes, loaded, ext_id, injected, result>>
    /\ IsoFrame

\* Mutant: without a monitor the exit channel's sender is dropped, which
\* completes the browser arm of the select.
IsoChromeExitedOnDrop ==
    /\ opc = "running"
    /\ child = <<>> \/ child[1] \notin alive
    /\ shutdown_sent' = TRUE
    /\ reason' = <<[kind |-> "ChromeExited", r |-> Joined(OkUnit)]>>
    /\ opc' = "cleanup"
    /\ UNCHANGED <<storeVars, osVars>>
    /\ UNCHANGED <<already_running, child, pipe, standard_alive, btask, bresult,
                   probes, loaded, ext_id, injected, result>>
    /\ IsoFrame

\* Step 12, select!: the monitor's child.wait() returned; signal the bridge.
IsoChromeExited ==
    /\ opc = "running"
    /\ child # <<>>
    /\ child[1] \notin alive
    /\ shutdown_sent' = TRUE
    /\ reason' = <<[kind |-> "ChromeExited", r |-> Joined(OkUnit)]>>
    /\ opc' = "cleanup"
    /\ UNCHANGED <<storeVars, osVars>>
    /\ UNCHANGED <<already_running, child, pipe, standard_alive, btask, bresult,
                   probes, loaded, ext_id, injected, result>>
    /\ IsoFrame

\* Step 12, select!: SIGINT or SIGTERM arrives; signal the bridge.
IsoSignal ==
    /\ opc = "running"
    /\ shutdown_sent' = TRUE
    /\ reason' = <<[kind |-> "Signal", r |-> Joined(OkUnit)]>>
    /\ opc' = "cleanup"
    /\ UNCHANGED <<storeVars, osVars>>
    /\ UNCHANGED <<already_running, child, pipe, standard_alive, btask, bresult,
                   probes, loaded, ext_id, injected, result>>
    /\ IsoFrame

\* Mutant: the teardown terminates the launched browser whatever the reason.
IsoCleanupIgnoresReason ==
    /\ opc = "cleanup"
    /\ token_file' = CleanupRecords(token_file)
    /\ port_file' = CleanupRecords(port_file)
    /\ pid_file' = CleanupRecords(pid_file)
    /\ opc' = IF child # <<>> THEN "term" ELSE "return"
    /\ UNCHANGED osVars
    /\ UNCHANGED <<already_running, child, pipe, standard_alive, shutdown_sent, btask, bresult,
                   probes, loaded, ext_id, injected, reason, result>>
    /\ IsoFrame

\* Mutant: the cleanup leaves the pid record, as the start-up sweep does.
IsoCleanupKeepPid ==
    /\ opc = "cleanup"
    /\ token_file' = CleanupRecords(token_file)
    /\ port_file' = CleanupRecords(port_file)
    /\ opc' = IF reason[1].kind # "ChromeExited" /\ child # <<>> THEN "term" ELSE "return"
    /\ UNCHANGED <<pid_file, osVars>>
    /\ UNCHANGED <<already_running, child, pipe, standard_alive, shutdown_sent, btask, bresult,
                   probes, loaded, ext_id, injected, reason, result>>
    /\ IsoFrame

\* Step 13, then step 14's decision: terminate the browser only if this run
\* launched it and the reason is not ChromeExited.
IsoCleanup ==
    /\ opc = "cleanup"
    /\ token_file' = CleanupRecords(token_file)
    /\ port_file' = CleanupRecords(port_file)
    /\ pid_file' = CleanupRecords(pid_file)
    /\ opc' = IF reason[1].kind # "ChromeExited" /\ child # <<>> THEN "term" ELSE "return"
    /\ UNCHANGED osVars
    /\ UNCHANGED <<already_running, child, pipe, standard_alive, shutdown_sent, btask, bresult,
                   probes, loaded, ext_id, injected, reason, result>>
    /\ IsoFrame

\* kill(pid, sig): the signal is sent if the process exists; SIGKILL ends it.
Kill(pid, sig) ==
    /\ signals' = Append(signals, [pid |-> pid, sig |-> sig])
    /\ alive' = IF sig = "SIGKILL" THEN alive \ {pid} ELSE alive

\* terminate_chrome: kill(pid, SIGTERM), then sleep 2 s.
IsoTerminate ==
    /\ opc = "term"
    /\ Kill(child[1], "SIGTERM")
    /\ opc' = "grace"
    /\ UNCHANGED storeVars
    /\ UNCHANGED <<already_running, child, pipe, standard_alive, shutdown_sent, btask, bresult,
                   probes, loaded, ext_id, injected, reason, result>>
    /\ IsoFrame

\* Mutant: the force-kill is sent without the zero-signal probe.
IsoForceKillUnprobed ==
    /\ opc = "grace"
    /\ Kill(child[1], "SIGKILL")
    /\ opc' = "return"
    /\ UNCHANGED storeVars
    /\ UNCHANGED <<already_running, child, pipe, standard_alive, shutdown_sent, btask, bresult,
                   probes, loaded, ext_id, injected, reason, result>>
    /\ IsoFrame

\* terminate_chrome after the sleep: if kill(pid, 0) == 0 then kill(pid, SIGKILL).
IsoForceKill ==
    /\ opc = "grace"
    /\ IF is_pid_alive(child[1])
       THEN Kill(child[1], "SIGKILL")
       ELSE UNCHANGED osVars
    /\ opc' = "return"
    /\ UNCHANGED storeVars
    /\ UNCHANGED <<already_running, child, pipe, standard_alive, shutdown_sent, btask, bresult,
                   probes, loaded, ext_id, injected, reason, result>>
    /\ IsoFrame

\* Mutant: a bridge error is replaced by a generic one.
ReturnValueWrapped(rs, l) ==
    IF rs = <<>> THEN Err(MsgLoadFailed(l))
    ELSE IF rs[1].kind = "BridgeExited"
         THEN IF rs[1].r.panicked THEN Err(MsgBridgePanicked)
              ELSE IF rs[1].r.inner.ok THEN OkUnit ELSE Err(MsgBridgePanicked)
         ELSE OkUnit

\* The value serve_isolated returns after its teardown: the load error on the
\* unwind path (no reason recorded), else step 15's match on the reason.
ReturnValue(rs, l) ==
    IF rs = <<>> THEN Err(MsgLoadFailed(l))
    ELSE IF rs[1].kind = "BridgeExited"
         THEN IF rs[1].r.panicked THEN Err(MsgBridgePanicked) ELSE rs[1].r.inner
         ELSE OkUnit

\* serve_isolated returns; its locals, the PipeKeepAlive among them, are dropped.
IsoReturn ==
    /\ opc = "return"
    /\ result' = <<ReturnValue(reason, loaded)>>
    /\ pipe' = DropPipe(pipe)
    /\ opc' = "returned"
    /\ UNCHANGED <<storeVars, osVars>>
    /\ UNCHANGED <<already_running, child, standard_alive, shutdown_sent, btask, bresult,
                   probes, loaded, ext_id, injected, reason>>
    /\ IsoFrame

\* ------------------------------------------------ the standard serve command
ServeFrame == UNCHANGED <<bridgeVars, cliVars, extVars, isoVars, stopVars, toolVars, signals>>

\* A user starts `extension serve` (standard scope) on another port.
StdStart ==
    /\ scpc = "off"
    /\ StdPid \notin alive
    /\ alive' = alive \cup {StdPid}
    /\ scpc' = "sweep"
    /\ UNCHANGED <<storeVars, isolated_alive>>
    /\ ServeFrame

\* serve: delete the standard port and token records, then probe the isolated
\* scope's recorded pid.
StdSweepProbe ==
    /\ scpc = "sweep"
    /\ port_file' = DeleteRecord(port_file, "standard")
    /\ token_file' = DeleteRecord(token_file, "standard")
    /\ isolated_alive' = RecordedPidAlive("isolated")
    /\ scpc' = "sweep_other"
    /\ UNCHANGED <<pid_file, alive>>
    /\ ServeFrame

\* serve: if !isolated_alive, delete the isolated port, token and pid records.
StdSweepOther ==
    /\ scpc = "sweep_other"
    /\ port_file' = SweepOther(port_file, isolated_alive, "isolated")
    /\ token_file' = SweepOther(token_file, isolated_alive, "isolated")
    /\ pid_file' = SweepOther(pid_file, isolated_alive, "isolated")
    /\ scpc' = "token"
    /\ UNCHANGED <<isolated_alive, alive>>
    /\ ServeFrame

\* serve: generate the token and write the token record (a failure is only reported).
StdWriteToken(ok) ==
    /\ scpc = "token"
    /\ token_file' = IF ok THEN WriteRecord(token_file, "standard", StdToken) ELSE token_file
    /\ scpc' = "pid"
    /\ UNCHANGED <<port_file, pid_file, isolated_alive, alive>>
    /\ ServeFrame

\* serve: write the pid record (a failure is only reported).
StdWritePid(ok) ==
    /\ scpc = "pid"
    /\ pid_file' = IF ok THEN WriteRecord(pid_file, "standard", PidRecord(StdPid, OtherPort))
                   ELSE pid_file
    /\ scpc' = "bind"
    /\ UNCHANGED <<port_file, token_file, isolated_alive, alive>>
    /\ ServeFrame

\* serve: the standard bridge binds its listener and records its port.
StdBind ==
    /\ scpc = "bind"
    /\ port_file' = WriteRecord(port_file, "standard", OtherPort)
    /\ scpc' = "serve"
    /\ UNCHANGED <<token_file, pid_file, isolated_alive, alive>>
    /\ ServeFrame

\* serve: the bridge returned (its exit path removed its port record); delete
\* the token and pid records and exit.
StdExit ==
    /\ scpc = "serve"
    /\ token_file' = DeleteRecord(token_file, "standard")
    /\ pid_file' = DeleteRecord(pid_file, "standard")
    /\ port_file' = DeleteRecord(port_file, "standard")
    /\ alive' = alive \ {StdPid}
    /\ scpc' = "exited"
    /\ UNCHANGED isolated_alive
    /\ ServeFrame

\* ---------------------------------------------------------- the stop command
StopFrame == UNCHANGED <<extension_tx, pending, next_id, cliVars, extVars, token_file, port_file,
                         isoVars, serveVars, toolVars>>

\* The scope delete_pid_file(is_isolated) works on.
ScopeOf(is_isolated) == IF is_isolated THEN "isolated" ELSE "standard"

\* The process p is gone, and with it the listener it held.
ProcessGone(p) ==
    /\ alive' = alive \ {p}
    /\ owner' = IF owner = <<p>> THEN <<>> ELSE owner
    /\ listening' = IF owner = <<p>> THEN FALSE ELSE listening

\* A bridge process that was sent SIGTERM exits.
ProcExit(p) ==
    /\ p \in alive
    /\ \E i \in 1..Len(signals) : signals[i] = [pid |-> p, sig |-> "SIGTERM"]
    /\ ProcessGone(p)
    /\ UNCHANGED <<pid_file, signals, stopVarsLocal>>
    /\ StopFrame

\* println!/json of stop, then return Ok(()).
Report(st) ==
    /\ status' = Append(status, st)
    /\ stpc' = "done"

\* A user runs `extension stop --port BridgePort`.
StopStart ==
    /\ stpc \in {"off", "done"}
    /\ stops < MaxStops
    /\ stops' = stops + 1
    /\ stpc' = "resolve"
    /\ resolved' = <<>>
    /\ UNCHANGED <<status, owner, listening, pid_file, osVars>>
    /\ StopFrame

Target(pid, is_isolated) == [kind |-> "target", pid |-> pid, is_isolated |-> is_isolated]
NoTarget(kind) == [kind |-> kind, pid |-> InvalidPid, is_isolated |-> FALSE]

\* Mutant: with both pids alive the isolated one is chosen.
ResolvePicksIsolated(iso, std, port) ==
    IF iso # <<>> /\ std # <<>> /\ iso[1].port = port /\ std[1].port = port
    THEN LET a1 == is_pid_alive(iso[1].pid)
             a2 == is_pid_alive(std[1].pid)
         IN  IF a1 THEN Target(iso[1].pid, TRUE)
             ELSE IF a2 THEN Target(std[1].pid, FALSE)
             ELSE NoTarget("both dead")
    ELSE IF iso # <<>> /\ iso[1].port = port THEN Target(iso[1].pid, TRUE)
    ELSE IF std # <<>> /\ std[1].port = port THEN Target(std[1].pid, FALSE)
    ELSE NoTarget("none")

\* Mutant: with both records on the port the isolated one is chosen, alive or not.
ResolveIgnoresLiveness(iso, std, port) ==
    IF iso # <<>> /\ std # <<>> /\ iso[1].port = port /\ std[1].port = port
    THEN LET a1 == is_pid_alive(iso[1].pid)
             a2 == is_pid_alive(std[1].pid)
         IN  IF a1 /\ a2 THEN NoTarget("multiple")
             ELSE IF ~a1 /\ ~a2 THEN NoTarget("both dead")
             ELSE Target(iso[1].pid, TRUE)
    ELSE IF iso # <<>> /\ iso[1].port = port THEN Target(iso[1].pid, TRUE)
    ELSE IF std # <<>> /\ std[1].port = port THEN Target(std[1].pid, FALSE)
    ELSE NoTarget("none")

\* let resolved = match (iso, std) { .. }: by the port each record embeds, and
\* by liveness when both claim the port.
Resolve(iso, std, port) ==
    IF iso # <<>> /\ std # <<>> /\ iso[1].port = port /\ std[1].port = port
    THEN LET a1 == is_pid_alive(iso[1].pid)
             a2 == is_pid_alive(std[1].pid)
         IN  IF a1 /\ ~a2 THEN Target(iso[1].pid, TRUE)
             ELSE IF ~a1 /\ a2 THEN Target(std[1].pid, FALSE)
             ELSE IF a1 /\ a2 THEN NoTarget("multiple")
             ELSE NoTarget("both dead")
    ELSE IF iso # <<>> /\ iso[1].port = port THEN Target(iso[1].pid, TRUE)
    ELSE IF std # <<>> /\ std[1].port = port THEN Target(std[1].pid, FALSE)
    ELSE NoTarget("none")

\* stop up to its first await on the port: read both pid records, resolve,
\* refuse on two live pids, clean up two dead ones, drop a record whose pid is 0.
StopResolve ==
    /\ stpc = "resolve"
    /\ LET r == Resolve(pid_file["isolated"], pid_file["standard"], BridgePort)
       IN  CASE r.kind = "multiple" ->
                  /\ Report("multiple")
                  /\ UNCHANGED <<pid_file, resolved>>
             [] r.kind = "both dead" ->
                  /\ pid_file' = NoRecords
                  /\ Report("not_running")
                  /\ UNCHANGED resolved
             [] r.kind = "none" ->
                  /\ stpc' = "no_record"
                  /\ UNCHANGED <<pid_file, resolved, status>>
             [] r.kind = "target" /\ r.pid = InvalidPid ->
                  /\ pid_file' = DeleteRecord(pid_file, ScopeOf(r.is_isolated))
                  /\ resolved' = <<r>>
                  /\ Report("not_running")
             [] OTHER ->
                  /\ resolved' = <<r>>
                  /\ stpc' = "probe"
                  /\ UNCHANGED <<pid_file, status>>
    /\ UNCHANGED <<stops, owner, listening, osVars>>
    /\ StopFrame

\* Mutant: the missing record is reported without probing the port.
StopNoRecordIgnoresProbe ==
    /\ stpc = "no_record"
    /\ Report("no_pid_file")
    /\ UNCHANGED <<resolved, stops, owner, listening, pid_file, osVars>>
    /\ StopFrame

\* No pid record matches the port: fall back to the port check.
StopNoRecord ==
    /\ stpc = "no_record"
    /\ Report(IF is_bridge_running THEN "no_pid_file" ELSE "not_running")
    /\ UNCHANGED <<resolved, stops, owner, listening, pid_file, osVars>>
    /\ StopFrame

\* Mutant: the terminate signal is sent without the check of the port.
StopProbeUnchecked ==
    /\ stpc = "probe"
    /\ stpc' = "term"
    /\ UNCHANGED <<pid_file, status>>
    /\ UNCHANGED <<resolved, stops, owner, listening, osVars>>
    /\ StopFrame

\* Mutant: with nothing listening the pid record is dropped, alive or not.
StopProbeDropsRecord ==
    /\ stpc = "probe"
    /\ IF is_bridge_running
       THEN /\ stpc' = "term"
            /\ UNCHANGED <<pid_file, status>>
       ELSE /\ pid_file' = DeleteRecord(pid_file, ScopeOf(resolved[1].is_isolated))
            /\ Report("not_running")
    /\ UNCHANGED <<resolved, stops, owner, listening, osVars>>
    /\ StopFrame

\* Before any signal: if nothing listens on the port, report not running and
\* delete the pid record only if its process is not alive.
StopProbe ==
    /\ stpc = "probe"
    /\ IF is_bridge_running
       THEN /\ stpc' = "term"
            /\ UNCHANGED <<pid_file, status>>
       ELSE /\ pid_file' = IF is_pid_alive(resolved[1].pid) THEN pid_file
                           ELSE DeleteRecord(pid_file, ScopeOf(resolved[1].is_isolated))
            /\ Report("not_running")
    /\ UNCHANGED <<resolved, stops, owner, listening, osVars>>
    /\ StopFrame

\* kill(pid, SIGTERM): ESRCH (no such process) drops the stale record, any
\* other error (denied) is reported and nothing else is done.
StopTerm(denied) ==
    /\ stpc = "term"
    /\ IF ~is_pid_alive(resolved[1].pid)
       THEN /\ pid_file' = DeleteRecord(pid_file, ScopeOf(resolved[1].is_isolated))
            /\ Report("not_running")
            /\ UNCHANGED osVars
       ELSE IF denied
       THEN /\ Report("kill_failed")
            /\ UNCHANGED <<pid_file, osVars>>
       ELSE /\ signals' = Append(signals, [pid |-> resolved[1].pid, sig |-> "SIGTERM"])
            /\ stpc' = "wait1"
            /\ UNCHANGED <<pid_file, status, alive>>
    /\ UNCHANGED <<resolved, stops, owner, listening>>
    /\ StopFrame

\* After 500 ms: kill(pid, 0) == 0 ?
StopWait1 ==
    /\ stpc = "wait1"
    /\ stpc' = IF is_pid_alive(resolved[1].pid) THEN "wait2" ELSE "finish"
    /\ UNCHANGED <<resolved, status, stops, owner, listening, pid_file, osVars>>
    /\ StopFrame

\* After 2 s more: if kill(pid, 0) == 0 still, kill(pid, SIGKILL), which ends
\* the process.
StopWait2 ==
    /\ stpc = "wait2"
    /\ IF is_pid_alive(resolved[1].pid)
       THEN /\ signals' = Append(signals, [pid |-> resolved[1].pid, sig |-> "SIGKILL"])
            /\ ProcessGone(resolved[1].pid)
       ELSE UNCHANGED <<osVars, owner, listening>>
    /\ stpc' = "finish"
    /\ UNCHANGED <<resolved, status, stops, pid_file>>
    /\ StopFrame

\* delete_pid_file(is_isolated), report stopped.
StopFinish ==
    /\ stpc = "finish"
    /\ pid_file' = DeleteRecord(pid_file, ScopeOf(resolved[1].is_isolated))
    /\ Report("stopped")
    /\ UNCHANGED <<resolved, stops, owner, listening, osVars>>
    /\ StopFrame

\* The machine when stop is run: each scope has no pid record or one with its
\* bridge's pid (or 0) and a port; either bridge process may be alive; one of
\* the live processes may hold the listener on the port.
StopInit ==
    /\ RouterInit
    /\ token_file = NoRecords
    /\ port_file = NoRecords
    /\ pid_file \in [Scopes -> {<<>>} \cup {<<PidRecord(p, pt)>> : p \in {InvalidPid, StdPid, IsoPid}, pt \in Ports}]
    /\ pid_file["standard"] # <<>> => pid_file["standard"][1].pid # IsoPid
    /\ pid_file["isolated"] # <<>> => pid_file["isolated"][1].pid # StdPid
    /\ alive \in SUBSET {StdPid, IsoPid}
    /\ owner \in {<<>>} \cup {<<p>> : p \in alive}
    /\ listening = (owner # <<>>)
    /\ signals = <<>>
    /\ opc = "off"
    /\ already_running = FALSE
    /\ child = <<>>
    /\ pipe = "none"
    /\ eof = FALSE
    /\ singleton_lock = FALSE
    /\ cdp_up = FALSE
    /\ standard_alive = FALSE
    /\ shutdown_sent = FALSE
    /\ btask = "none"
    /\ bresult = <<>>
    /\ probes = 0
    /\ loaded = "none"
    /\ ext_id = <<>>
    /\ injected = "none"
    /\ reason = <<>>
    /\ result = <<>>
    /\ scpc = "off"
    /\ isolated_alive = FALSE
    /\ stpc = "off"
    /\ resolved = <<>>
    /\ status = <<>>
    /\ stops = 0
    /\ ToolIdle

StopNext ==
    \/ StopStart
    \/ StopResolve
    \/ StopNoRecord
    \/ StopProbe
    \/ \E denied \in BOOLEAN : StopTerm(denied)
    \/ StopWait1
    \/ StopWait2
    \/ StopFinish
    \/ \E p \in {StdPid, IsoPid} : ProcExit(p)

StopSpec == StopInit /\ [][StopNext]_vars

\* -------------------------------------------------- the isolated-mode system
\* serve_isolated is started.  The standard scope has no bridge and no records
\* ("none"), the records of a bridge that died ("stale"), or a running bridge
\* ("running"); the isolated scope may hold the records of an earlier run; an
\* isolated browser of an earlier run may have left its lock and may answer
\* on the debugging port.
IsoInit ==
    /\ listening = FALSE
    /\ RouterInit
    /\ \E std \in {"none", "stale", "running"}, iso_stale \in BOOLEAN :
        /\ token_file = [sc \in Scopes |->
              IF sc = "standard"
              THEN (IF std = "none" THEN <<>>
                    ELSE IF std = "stale" THEN <<StaleToken>> ELSE <<StdToken>>)
              ELSE (IF iso_stale THEN <<StaleToken>> ELSE <<>>)]
        /\ port_file = [sc \in Scopes |->
              IF sc = "standard" THEN (IF std = "none" THEN <<>> ELSE <<OtherPort>>)
              ELSE (IF iso_stale THEN <<BridgePort>> ELSE <<>>)]
        /\ pid_file = [sc \in Scopes |->
              IF sc = "standard"
              THEN (IF std = "none" THEN <<>>
                    ELSE IF std = "stale" THEN <<PidRecord(StalePid, OtherPort)>>
                    ELSE <<PidRecord(StdPid, OtherPort)>>)
              ELSE (IF iso_stale THEN <<PidRecord(StalePid, BridgePort)>> ELSE <<>>)]
        /\ alive = IF std = "running" THEN {IsoPid, StdPid} ELSE {IsoPid}
        /\ scpc = IF std = "running" THEN "serve" ELSE "off"
    /\ signals = <<>>
    /\ opc = "preflight"
    /\ already_running = FALSE
    /\ child = <<>>
    /\ pipe = "none"
    /\ eof = FALSE
    /\ singleton_lock \in BOOLEAN
    /\ cdp_up \in BOOLEAN
    /\ standard_alive = FALSE
    /\ shutdown_sent = FALSE
    /\ btask = "none"
    /\ bresult = <<>>
    /\ probes = 0
    /\ loaded = "none"
    /\ ext_id = <<>>
    /\ injected = "none"
    /\ reason = <<>>
    /\ result = <<>>
    /\ isolated_alive = FALSE
    /\ stpc = "off"
    /\ resolved = <<>>
    /\ status = <<>>
    /\ stops = 0
    /\ owner = <<>>
    /\ ToolIdle

IsoStep ==
    \/ \E o \in PreflightOutcomes : IsoPreflight(o)
    \/ IsoProbe
    \/ IsoReuse
    \/ \E ok \in BOOLEAN, has_pipe \in BOOLEAN : IsoLaunch(ok, has_pipe)
    \/ IsoSweepProbe
    \/ IsoSweepOther
    \/ \E token_ok \in BOOLEAN, pid_ok \in BOOLEAN : IsoWriteRecords(token_ok, pid_ok)
    \/ IsoWaitBridge
    \/ IsoLoadSkip
    \/ IsoLoadOk
    \/ \E how \in LoadFailures : IsoLoadFail(how)
    \/ \E ok \in BOOLEAN : IsoInject(ok)
    \/ IsoBridgeExited
    \/ IsoChromeExited
    \/ IsoSignal
    \/ IsoCleanup
    \/ IsoTerminate
    \/ IsoForceKill
    \/ IsoReturn

BridgeTaskStep ==
    \/ \E ok \in BOOLEAN : BridgeBind(ok)
    \/ \E how \in {"error", "panic"} : BridgeFail(how)
    \/ BridgeShutdown

StdStep ==
    \/ StdStart
    \/ StdSweepProbe
    \/ StdSweepOther
    \/ \E ok \in BOOLEAN : StdWriteToken(ok)
    \/ \E ok \in BOOLEAN : StdWritePid(ok)
    \/ StdBind
    \/ StdExit

IsoNext ==
    \/ IsoStep
    \/ BridgeTaskStep
    \/ ChromeExit
    \/ ChromeEof
    \/ WorkerEnds
    \/ StdStep

IsoSpec == IsoInit /\ [][IsoNext]_vars

\* ------------------------------------------------------------ specification
\* First frames by the token they carry.
CliFrames(tokens) == [type : {"cli"}, id : CallerIds, token : tokens, method : Methods]
ExtensionFrames(tokens) == [type : {"extension"}, id : {<<>>}, token : tokens, method : {""}]

\* Ids an extension frame may carry: none (-1), an allocated RequestId, the next one.
FrameIds == {-1} \cup 1..next_id

\* The steps of the connection tasks after their first frame.
\* The extension connections the bridge has accepted or may still accept.
Connections == DOMAIN epc

TaskStep ==
    \/ \E s \in Sessions : OtherConnect(s)
    \/ \E s \in Sessions : CliReply(s)
    \/ \E s \in Sessions : CliTimeout(s)
    \/ \E s \in Sessions : CliTimeoutRemove(s)
    \/ \E s \in Sessions : CliTimeoutSend(s)
    \/ \E e \in Connections, id \in FrameIds : ExtRecv(e, id)
    \/ \E e \in Connections : ExtRoute(e)
    \/ \E e \in Connections : ExtClose(e)
    \/ \E e \in Connections : ExtCleanup(e)

\* Clients that present the session token.  The write pump only moves commands
\* from chan to written, which no other task reads, so it is left to PumpSpec.
Next ==
    \/ TaskStep
    \/ \E s \in Sessions, f \in CliFrames({<<SessionToken>>}) : CliAdmit(s, f)
    \/ \E e \in Connections, f \in ExtensionFrames({<<SessionToken>>}) : ExtRegister(e, f)

Spec == Init /\ [][Next]_vars

\* The same with the write pump of every extension connection running.
PumpNext ==
    \/ Next
    \/ \E e \in Connections : WritePump(e)

PumpSpec == Init /\ [][PumpNext]_vars

\* The bridge with its shutdown signal.
ShutdownNext ==
    \/ Next
    \/ Shutdown
    \/ \E s \in Sessions : CliLost(s)

ShutdownSpec == Init /\ [][ShutdownNext]_vars

\* Clients with any token in their first frame.
AuthNext ==
    \/ TaskStep
    \/ \E s \in Sessions, f \in CliFrames(Tokens) : CliAdmit(s, f)
    \/ \E e \in Connections, f \in ExtensionFrames(Tokens) : ExtRegister(e, f)

AuthSpec == Init /\ [][AuthNext]_vars

\* Extension connections accepted after the first ones: the extension
\* reconnects, or a second browser profile connects its own.
MaxReconnects == 1
ReconnectInit ==
    /\ listening = TRUE
    /\ RouterInitOf(1..(MaxExtensions + MaxReconnects))
    /\ HostIdle

ReconnectSpec == ReconnectInit /\ [][Next]_vars

\* ------------------------------------------------- the browser's reply pipe
\* const MAX_PIPE_RESPONSE_SIZE: usize = 1_048_576
MAX_PIPE_RESPONSE_SIZE == 1048576
\* Calls of reader.read that return a byte or are interrupted, per exchange.
MaxRead == 2

\* The bytes of a reply before its NUL, by what from_utf8 and serde_json make
\* of them: raw names the text, len is its shortest length in bytes, an absent
\* member is an empty Option, message and id hold the string only when the
\* member is a JSON string.
Reply(raw, len, utf8, json, error, result_id) ==
    [raw |-> raw, len |-> len, utf8 |-> utf8, json |-> json, error |-> error,
     result_id |-> result_id]
NoMessage == [str |-> FALSE, text |-> ""]
Message(m) == [str |-> TRUE, text |-> m]
Replies ==
    { Reply("<ff>", 1, FALSE, FALSE, <<>>, <<>>),
      Reply("", 0, TRUE, FALSE, <<>>, <<>>),
      Reply("not json", 8, TRUE, FALSE, <<>>, <<>>),
      Reply("{error:{message:Extension not found}}", 43, TRUE, TRUE,
            <<Message("Extension not found")>>, <<>>),
      Reply("{error:null}", 14, TRUE, TRUE, <<NoMessage>>, <<>>),
      Reply("{result:{id:abcdef123456}}", 32, TRUE, TRUE, <<>>, <<Message("abcdef123456")>>),
      Reply("{result:{id:1}}", 19, TRUE, TRUE, <<>>, <<NoMessage>>),
      Reply("{id:1,result:{}}", 20, TRUE, TRUE, <<>>, <<>>),
      Reply("{error:{message:Extension not found},result:{id:abcdef123456}}", 74, TRUE, TRUE,
            <<Message("Extension not found")>>, <<Message("abcdef123456")>>) }
\* The reply r can be the n bytes of buf: the empty text has no byte, any other
\* text may carry padding after its shortest form.
Fits(r, n) == IF r.len = 0 THEN n = 0 ELSE n >= r.len

\* Result<(String, PipeKeepAlive)> of load_extension: an error is an
\* ExtensionError of a fixed text (kind) and an inserted one (detail).
Loaded(id) == [ok |-> TRUE, ext_id |-> <<id>>, keepalive |-> TRUE, kind |-> "", detail |-> ""]
LoadError(kind, detail) ==
    [ok |-> FALSE, ext_id |-> <<>>, keepalive |-> FALSE, kind |-> kind, detail |-> detail]
MsgPipeClosed == "CDP pipe closed before receiving response"
MsgPipeTooLong == "CDP pipe response exceeded maximum size (1 MB)"
MsgPipeRead == "Failed to read from CDP pipe"
MsgNotUtf8 == "CDP pipe response is not valid UTF-8"
MsgParseFailed == "Failed to parse CDP pipe response"
MsgLoadUnpackedFailed == "CDP Extensions.loadUnpacked failed"
MsgMissingId == "CDP response missing result.id"

\* Mutant: the bound is tested after the byte is stored.
BufferFullLate(n) == n > MAX_PIPE_RESPONSE_SIZE

\* buf.len() >= MAX_PIPE_RESPONSE_SIZE
BufferFull(n) == n >= MAX_PIPE_RESPONSE_SIZE

\* Mutant: result.id is looked at before the error member.
ParseIdFirst(r) ==
    IF ~r.json THEN LoadError(MsgParseFailed, r.raw)
    ELSE IF r.result_id # <<>> /\ r.result_id[1].str THEN Loaded(r.result_id[1].text)
    ELSE IF r.error # <<>>
    THEN LoadError(MsgLoadUnpackedFailed,
                   IF r.error[1].str THEN r.error[1].text ELSE "unknown error")
    ELSE LoadError(MsgMissingId, r.raw)

\* parse_load_extension_response, and the Ok((ext_id, PipeKeepAlive(writer)))
\* load_extension wraps its success in.
parse_load_extension_response(r) ==
    IF ~r.json THEN LoadError(MsgParseFailed, r.raw)
    ELSE IF r.error # <<>>
    THEN LoadError(MsgLoadUnpackedFailed,
                   IF r.error[1].str THEN r.error[1].text ELSE "unknown error")
    ELSE IF r.result_id # <<>> /\ r.result_id[1].str THEN Loaded(r.result_id[1].text)
    ELSE LoadError(MsgMissingId, r.raw)

PipeFrame == UNCHANGED <<bridgeVars, cliVars, extVars, storeVars, osVars, isoVars, serveVars,
                         stopVars, targetVars, evalVars>>

\* One turn of the loop of read_null_terminated_response: reader.read(&mut byte)
\* returns Ok(0), a NUL byte, another byte, Interrupted, or another error.
PipeRead(r) ==
    /\ rdpc = "read"
    /\ r \in {"byte", "interrupted"} => Len(consumed) < MaxRead
    /\ consumed' = Append(consumed, r)
    /\ CASE r = "eof" ->
              /\ load_result' = <<LoadError(MsgPipeClosed, "")>>
              /\ rdpc' = "done"
              /\ UNCHANGED <<buf_len, payload>>
         [] r = "nul" ->
              /\ \E p \in Replies : Fits(p, buf_len) /\ payload' = <<p>>
              /\ rdpc' = "decode"
              /\ UNCHANGED <<buf_len, load_result>>
         [] r = "byte" ->
              IF BufferFull(buf_len)
              THEN /\ load_result' = <<LoadError(MsgPipeTooLong, "")>>
                   /\ rdpc' = "done"
                   /\ UNCHANGED <<buf_len, payload>>
              ELSE /\ buf_len' = buf_len + 1
                   /\ UNCHANGED <<rdpc, payload, load_result>>
         [] r = "interrupted" ->
              UNCHANGED <<rdpc, buf_len, payload, load_result>>
         [] OTHER ->
              /\ load_result' = <<LoadError(MsgPipeRead, "")>>
              /\ rdpc' = "done"
              /\ UNCHANGED <<buf_len, payload>>
    /\ PipeFrame

\* String::from_utf8(buf)
PipeDecode ==
    /\ rdpc = "decode"
    /\ IF payload[1].utf8
       THEN /\ rdpc' = "parse"
            /\ UNCHANGED load_result
       ELSE /\ rdpc' = "done"
            /\ load_result' = <<LoadError(MsgNotUtf8, "")>>
    /\ UNCHANGED <<buf_len, consumed, payload>>
    /\ PipeFrame

\* CdpPipe::parse_load_extension_response(&response_str), then the return of
\* load_extension.
PipeParse ==
    /\ rdpc = "parse"
    /\ load_result' = <<parse_load_extension_response(payload[1])>>
    /\ rdpc' = "done"
    /\ UNCHANGED <<buf_len, consumed, payload>>
    /\ PipeFrame

\* The reader after the request is written, with the non-NUL bytes of the
\* reply it has stored so far.
StartLens == {0, 74, MAX_PIPE_RESPONSE_SIZE - 1, MAX_PIPE_RESPONSE_SIZE}
PipeInit ==
    /\ listening = FALSE
    /\ RouterInit
    /\ CommandsIdle
    /\ rdpc = "read"
    /\ buf_len \in StartLens
    /\ consumed = <<>>
    /\ payload = <<>>
    /\ load_result = <<>>
    /\ tpc = "off"
    /\ targets = <<>>
    /\ found = <<>>
    /\ evaluated = <<>>
    /\ EvalIdle

PipeNext ==
    \/ \E r \in {"eof", "nul", "byte", "interrupted", "error"} : PipeRead(r)
    \/ PipeDecode
    \/ PipeParse

PipeSpec == PipeInit /\ [][PipeNext]_vars

\* ------------------------------------------- the target lookup of the reuse path
\* const ACTIONBOOK_SW_FILENAME: &str = "background.js"
ACTIONBOOK_SW_FILENAME == "background.js"
\* Entries of a target listing.
MaxTargets == 2
\* The extensions installed in the browser: Actionbook and another one.
ActionbookExtension == "actionbook"
OtherExtension == "other"

\* A CdpTarget.  Its url is scheme ++ host ++ "/" ++ file, where file is the
\* text after the last "/"; for an extension's target the host is the
\* extension id.  ws is the webSocketDebuggerUrl ("" when the member is absent).
CdpTarget(type, scheme, host, file, ws) ==
    [type |-> type, scheme |-> scheme, host |-> host, file |-> file, ws |-> ws]
CdpTargets ==
    { CdpTarget(type, scheme, host, file, ws) :
        type \in {"service_worker", "page"},
        scheme \in {"chrome-extension://", "https://"},
        host \in {ActionbookExtension, OtherExtension},
        file \in {ACTIONBOOK_SW_FILENAME, "sw.js"},
        ws \in {"", "ws://127.0.0.1/devtools"} }
Listings == UNION {[1..n -> CdpTargets] : n \in 0..MaxTargets}

MsgNoTarget ==
    "No Actionbook extension service_worker target found via CDP. Looking for a service_worker with background.js"
MsgListFailed == "Failed to query CDP /json/list"
MsgEvaluateFailed == "evaluate_in_target failed"
\* Result<(String, String)> of the lookup; Result<()> of inject_token_existing.
FoundTarget(t) == [ok |-> TRUE, target |-> <<t>>, err |-> ""]
NotFound(e) == [ok |-> FALSE, target |-> <<>>, err |-> e]

\* t.url.starts_with("chrome-extension://")
StartsWithExtensionScheme(t) == t.scheme = "chrome-extension://"
\* t.url.ends_with(&sw_suffix), sw_suffix = "/" ++ ACTIONBOOK_SW_FILENAME
EndsWithSwSuffix(t) == t.file = ACTIONBOOK_SW_FILENAME
\* The closure given to find.
SwFilter(t) ==
    t.type = "service_worker" /\ StartsWithExtensionScheme(t) /\ EndsWithSwSuffix(t)

\* targets.into_iter().find(..).map(..).filter(|(ws, _)| !ws.is_empty()).ok_or_else(..)
find_any_extension_service_worker(ts) ==
    LET hits == {i \in 1..Len(ts) : SwFilter(ts[i])}
    IN  IF hits = {} THEN NotFound(MsgNoTarget)
        ELSE LET t == ts[CHOOSE i \in hits : \A j \in hits : i <= j]
             IN  IF t.ws = "" THEN NotFound(MsgNoTarget) ELSE FoundTarget(t)

TargetFrame == UNCHANGED <<bridgeVars, cliVars, extVars, storeVars, osVars, isoVars, serveVars,
                           stopVars, pipeVars, evalVars>>

\* GET /json/list: the request or the decoding of its answer fails, or the
\* listing is at hand.
TargetList(ok) ==
    /\ tpc = "list"
    /\ IF ok
       THEN /\ tpc' = "find"
            /\ UNCHANGED found
       ELSE /\ tpc' = "done"
            /\ found' = <<NotFound(MsgListFailed)>>
    /\ UNCHANGED <<targets, evaluated>>
    /\ TargetFrame

\* The filter over the listing, and the ? of inject_token_existing.
TargetFind ==
    /\ tpc = "find"
    /\ found' = <<find_any_extension_service_worker(targets)>>
    /\ tpc' = IF found'[1].ok THEN "evaluate" ELSE "done"
    /\ UNCHANGED <<targets, evaluated>>
    /\ TargetFrame

\* evaluate_in_target(&ws_url, &expression): chrome.storage.local.set of the
\* token and the port in the target found.
TargetEvaluate(ok) ==
    /\ tpc = "evaluate"
    /\ evaluated' = Append(evaluated, found[1].target[1])
    /\ found' = IF ok THEN found ELSE <<NotFound(MsgEvaluateFailed)>>
    /\ tpc' = "done"
    /\ UNCHANGED targets
    /\ TargetFrame

\* inject_token_existing is called on a browser whose listing is any listing.
TargetInit ==
    /\ listening = FALSE
    /\ RouterInit
    /\ CommandsIdle
    /\ rdpc = "off"
    /\ buf_len = 0
    /\ consumed = <<>>
    /\ payload = <<>>
    /\ load_result = <<>>
    /\ tpc = "list"
    /\ targets \in Listings
    /\ found = <<>>
    /\ evaluated = <<>>
    /\ EvalIdle

TargetNext ==
    \/ \E ok \in BOOLEAN : TargetList(ok)
    \/ TargetFind
    \/ \E ok \in BOOLEAN : TargetEvaluate(ok)

TargetSpec == TargetInit /\ [][TargetNext]_vars

\* ------------------------------------------------------- evaluate_in_target
\* Messages read in one evaluation before the answer or failure.
MaxMessages == 2

MsgWsConnect == "Failed to connect to CDP WebSocket"
MsgWsSend == "Failed to send CDP evaluate"
MsgWsRead == "CDP WebSocket read error"
MsgWsParse == "Failed to parse CDP response"
MsgCdpError == "CDP Runtime.evaluate error"
MsgJsException == "JS exception during token injection"
MsgWsClosed == "CDP WebSocket closed before receiving response"
MsgEvalTimeout == "Timed out waiting for CDP Runtime.evaluate response (10s)"

\* What ws_stream.next() yields: a message (text or not; a text is JSON or
\* not; its id, 0 when absent; whether it has an "error" member, a "result"
\* member, and "exceptionDetails" in the result), a read error, or the end of
\* the stream.
WsMessage(text, json, id, has_error, has_result, exception) ==
    [kind |-> "message", text |-> text, json |-> json, id |-> id, error |-> has_error,
     result |-> has_result, exception |-> exception]
WsReadError == [kind |-> "error"]
WsEnd == [kind |-> "end"]
WsMessages ==
    { WsMessage(FALSE, FALSE, 0, FALSE, FALSE, FALSE),
      WsMessage(TRUE, FALSE, 0, FALSE, FALSE, FALSE),
      WsMessage(TRUE, TRUE, 0, FALSE, FALSE, FALSE),
      WsMessage(TRUE, TRUE, 2, TRUE, FALSE, FALSE),
      WsMessage(TRUE, TRUE, 1, TRUE, FALSE, FALSE),
      WsMessage(TRUE, TRUE, 1, TRUE, TRUE, FALSE),
      WsMessage(TRUE, TRUE, 1, FALSE, TRUE, TRUE),
      WsMessage(TRUE, TRUE, 1, FALSE, TRUE, FALSE),
      WsMessage(TRUE, TRUE, 1, FALSE, FALSE, FALSE) }

\* Result<serde_json::Value>: the value is the result member or Null.
Value(v) == [ok |-> TRUE, value |-> v, err |-> ""]
EvalErr(e) == [ok |-> FALSE, value |-> "", err |-> e]
\* Err(Elapsed) of tokio::time::timeout.
Elapsed == [ok |-> FALSE, value |-> "", err |-> "elapsed"]

\* One turn of the while-let loop: <<>> when the loop goes on, else what the
\* async block returns.
OnMessage(m) ==
    IF m.kind = "end" THEN <<EvalErr(MsgWsClosed)>>
    ELSE IF m.kind = "error" THEN <<EvalErr(MsgWsRead)>>
    ELSE IF ~m.text THEN <<>>
    ELSE IF ~m.json THEN <<EvalErr(MsgWsParse)>>
    ELSE IF m.id # 1 THEN <<>>
    ELSE IF m.error THEN <<EvalErr(MsgCdpError)>>
    ELSE IF m.result
         THEN IF m.exception THEN <<EvalErr(MsgJsException)>> ELSE <<Value("result")>>
         ELSE <<Value("null")>>

EvalFrame == UNCHANGED <<bridgeVars, cliVars, extVars, storeVars, osVars, isoVars, serveVars,
                         stopVars, pipeVars, targetVars>>

\* connect_async(ws_url).await.map_err(..)?
EvalConnect(ok) ==
    /\ evpc = "connect"
    /\ IF ok
       THEN /\ ws_stream' = "open"
            /\ evpc' = "send"
            /\ UNCHANGED eval_result
       ELSE /\ eval_result' = <<EvalErr(MsgWsConnect)>>
            /\ evpc' = "done"
            /\ UNCHANGED ws_stream
    /\ UNCHANGED <<inbox, timed>>
    /\ EvalFrame

\* ws_stream.send(request).await.map_err(..)?: on an error the function
\* returns here and ws_stream, a local, is dropped.
EvalSend(ok) ==
    /\ evpc = "send"
    /\ IF ok
       THEN /\ evpc' = "read"
            /\ UNCHANGED <<ws_stream, eval_result>>
       ELSE /\ eval_result' = <<EvalErr(MsgWsSend)>>
            /\ ws_stream' = "dropped"
            /\ evpc' = "done"
    /\ UNCHANGED <<inbox, timed>>
    /\ EvalFrame

\* ws_stream.next().await inside the timeout: one turn of the loop.
EvalRead(m) ==
    /\ evpc = "read"
    /\ OnMessage(m) = <<>> => Len(inbox) < MaxMessages
    /\ inbox' = Append(inbox, m)
    /\ IF OnMessage(m) = <<>>
       THEN UNCHANGED <<evpc, timed>>
       ELSE /\ timed' = OnMessage(m)
            /\ evpc' = "close"
    /\ UNCHANGED <<ws_stream, eval_result>>
    /\ EvalFrame

\* The 10 s deadline expires before the async block returns.
EvalDeadline ==
    /\ evpc = "read"
    /\ timed' = <<Elapsed>>
    /\ evpc' = "close"
    /\ UNCHANGED <<ws_stream, inbox, eval_result>>
    /\ EvalFrame

\* let _ = ws_stream.close(None).await; then match result { .. }.
EvalClose ==
    /\ evpc = "close"
    /\ ws_stream' = "closed"
    /\ eval_result' = IF timed[1] = Elapsed THEN <<EvalErr(MsgEvalTimeout)>> ELSE timed
    /\ evpc' = "done"
    /\ UNCHANGED <<inbox, timed>>
    /\ EvalFrame

\* evaluate_in_target is called with the debug URL of a target.
EvalInit ==
    /\ listening = FALSE
    /\ RouterInit
    /\ CommandsIdle
    /\ rdpc = "off"
    /\ buf_len = 0
    /\ consumed = <<>>
    /\ payload = <<>>
    /\ load_result = <<>>
    /\ tpc = "off"
    /\ targets = <<>>
    /\ found = <<>>
    /\ evaluated = <<>>
    /\ evpc = "connect"
    /\ ws_stream = "none"
    /\ inbox = <<>>
    /\ timed = <<>>
    /\ eval_result = <<>>

EvalNext ==
    \/ \E ok \in BOOLEAN : EvalConnect(ok)
    \/ \E ok \in BOOLEAN : EvalSend(ok)
    \/ \E m \in WsMessages \cup {WsReadError, WsEnd} : EvalRead(m)
    \/ EvalDeadline
    \/ EvalClose

EvalSpec == EvalInit /\ [][EvalNext]_vars

\* ----------------------------------------------- find_service_worker_target
MsgListParseFailed == "Failed to parse CDP /json/list"
MsgNoTargetForExtension == "No service_worker target found for extension"
\* Result<String> of the lookup by extension id.
WsUrl(u) == [ok |-> TRUE, url |-> u, err |-> ""]
NoWsUrl(e) == [ok |-> FALSE, url |-> "", err |-> e]

\* t.url.starts_with(&pattern), pattern = "chrome-extension://" ++ ext_id ++ "/"
StartsWithPattern(t, xid) == t.scheme = "chrome-extension://" /\ t.host = xid
\* The closure given to find.
IdFilter(t, xid) == t.type = "service_worker" /\ StartsWithPattern(t, xid)

\* targets.into_iter().find(..).map(|t| t.web_socket_debugger_url)
\*     .filter(|ws| !ws.is_empty()).ok_or_else(..)
find_service_worker_target(ts, xid) ==
    LET hits == {i \in 1..Len(ts) : IdFilter(ts[i], xid)}
    IN  IF hits = {} THEN NoWsUrl(MsgNoTargetForExtension)
        ELSE LET t == ts[CHOOSE i \in hits : \A j \in hits : i <= j]
             IN  IF t.ws = "" THEN NoWsUrl(MsgNoTargetForExtension) ELSE WsUrl(t.ws)

\* GET /json/list and its decoding: either fails, or the listing is at hand.
FindList(outcome) ==
    /\ tpc = "list_by_id"
    /\ IF outcome = "ok"
       THEN /\ tpc' = "find_by_id"
            /\ UNCHANGED found
       ELSE /\ tpc' = "done"
            /\ found' = <<NoWsUrl(IF outcome = "query" THEN MsgListFailed ELSE MsgListParseFailed)>>
    /\ UNCHANGED <<targets, evaluated>>
    /\ TargetFrame

\* The filter over the listing for the extension id.
FindById(xid) ==
    /\ tpc = "find_by_id"
    /\ found' = <<find_service_worker_target(targets, xid)>>
    /\ evaluated' = <<xid>>
    /\ tpc' = "done"
    /\ UNCHANGED targets
    /\ TargetFrame

\* find_service_worker_target is called on a browser whose listing is any listing.
FindInit ==
    /\ listening = FALSE
    /\ RouterInit
    /\ CommandsIdle
    /\ rdpc = "off"
    /\ buf_len = 0
    /\ consumed = <<>>
    /\ payload = <<>>
    /\ load_result = <<>>
    /\ tpc = "list_by_id"
    /\ targets \in Listings
    /\ found = <<>>
    /\ evaluated = <<>>
    /\ EvalIdle

FindNext ==
    \/ \E outcome \in {"ok", "query", "parse"} : FindList(outcome)
    \/ \E xid \in {ActionbookExtension, OtherExtension} : FindById(xid)

FindSpec == FindInit /\ [][FindNext]_vars

\* ------------------------------------------------------------------- claims
IsReply(f) == f.result # <<>> /\ f.error = <<>>
IsError(f, m) == f.result = <<>> /\ f.error = <<[code |-> ErrorCode, message |-> m]>>
Admitted(s) == request_id[s] # <<>>
\* The id a caller put in its first frame (0 stands in when it sent none).
SentId(f) == IF f.id = <<>> THEN 0 ELSE f.id[1]

\* C1: every frame the bridge writes to a caller's socket (extension reply,
\* not-connected, disconnected or timeout error) carries the id of that
\* caller's first frame, whatever RequestId was assigned and whatever id the
\* frame had when it reached the reply slot.
C1_ReplyIdIsCallerId ==
    \A s \in Sessions : \A i \in 1..Len(out[s]) :
        first[s].id # <<>> => out[s][i].id = first[s].id[1]

\* A caller with id 7 got RequestId 2 and the extension's reply, another got the
\* disconnect error that left the extension task with id 0.
C1_Witness ==
    \E s, t \in Sessions :
        /\ first[s].id = <<7>> /\ request_id[s] = <<2>>
        /\ pc[s] = "done" /\ out[s] # <<>> /\ IsReply(out[s][1]) /\ out[s][1].id = 7
        /\ first[t].id = <<7>> /\ pc[t] = "done" /\ out[t] # <<>> /\ response[t] # <<>>
        /\ IsError(out[t][1], MsgDisconnected) /\ response[t][1].id = 0

\* C2: an admitted caller session never has two frames on its socket, is never
\* stuck before it has one (one of its steps is enabled until it is done), and
\* is done (socket closed) exactly when it has the one frame: a reply, a
\* disconnect error or a timeout error.
C2_ExactlyOneFrame ==
    \A s \in Sessions : Admitted(s) =>
        /\ Len(out[s]) <= 1
        /\ (pc[s] = "done") <=> (Len(out[s]) = 1)
        /\ pc[s] # "done" => ENABLED SessionStep(s)
        /\ \A i \in 1..Len(out[s]) :
              \/ IsReply(out[s][i])
              \/ IsError(out[s][i], MsgDisconnected)
              \/ IsError(out[s][i], MsgTimedOut)

\* Two admitted sessions are done, one with a reply and one with a timeout error.
C2_Witness ==
    \E s, t \in Sessions :
        /\ Admitted(s) /\ pc[s] = "done" /\ Len(out[s]) = 1 /\ IsReply(out[s][1])
        /\ Admitted(t) /\ pc[t] = "done" /\ Len(out[t]) = 1 /\ IsError(out[t][1], MsgTimedOut)

\* C3: every RequestId allocated is positive and greater than every RequestId
\* allocated before it, so no two caller sessions ever hold the same one.
C3_RequestIdsIncrease ==
    [][\A s \in Sessions :
          (request_id[s] = <<>> /\ request_id'[s] # <<>>) =>
              /\ request_id'[s][1] >= 1
              /\ \A t \in Sessions :
                    request_id[t] # <<>> => request_id[t][1] < request_id'[s][1]]_vars

\* Two caller sessions are in flight at once, with RequestIds 1 and 2.
C3_Witness ==
    \E s, t \in Sessions :
        /\ request_id[s] = <<1>> /\ request_id[t] = <<2>>
        /\ pc[s] = "waiting" /\ pc[t] = "waiting"
        /\ PendingKeys(pending) = {1, 2}

\* C4: an extension frame of RequestId r reaches only the reply slot of the
\* session that was assigned r, and the result a caller is sent is the result
\* of its own request (the extension's result for request r is r).
C4_ReplyRoutedByRequestId ==
    \A s \in Sessions :
        /\ (response[s] # <<>> /\ IsReply(response[s][1])) =>
              request_id[s] = <<response[s][1].id>>
        /\ \A i \in 1..Len(out[s]) :
              IsReply(out[s][i]) => request_id[s] = out[s][i].result

\* The later request was answered first: its caller has its result while the
\* earlier one is still waiting.
C4_Witness ==
    \E s, t \in Sessions :
        /\ request_id[s] = <<1>> /\ pc[s] = "waiting" /\ response[s] = <<>>
        /\ request_id[t] = <<2>> /\ pc[t] = "done" /\ out[t] # <<>> /\ out[t][1].result = <<2>>

\* C5: a cli frame handled while extension_tx is None is answered with the
\* "Extension not connected" error under the caller's own id, the session is
\* done, no RequestId is consumed and no pending entry is created.
C5_NotConnected ==
    [][\A s \in Sessions :
          (pc[s] = "idle" /\ first'[s].type = "cli" /\ extension_tx = <<>>) =>
              /\ out'[s] = <<ErrorFrame(SentId(first'[s]), MsgNotConnected)>>
              /\ pc'[s] = "done"
              /\ request_id'[s] = <<>>
              /\ UNCHANGED <<extension_tx, pending, next_id>>]_vars

\* A caller that sent id 7 has the not-connected error and no RequestId.
C5_Witness ==
    \E s \in Sessions :
        /\ pc[s] = "done" /\ request_id[s] = <<>>
        /\ out[s] = <<ErrorFrame(7, MsgNotConnected)>>

\* C6: a caller whose wait timed out is sent the timeout error under its own
\* id; its entry is out of the pending map before the error is sent and stays
\* out afterwards.
C6_TimeoutRemovesThenSends ==
    /\ [](\A s \in Sessions :
            /\ pc[s] = "expired" => request_id[s][1] \notin PendingKeys(pending)
            /\ \A i \in 1..Len(out[s]) :
                  IsError(out[s][i], MsgTimedOut) =>
                      /\ out[s][i].id = SentId(first[s])
                      /\ request_id[s][1] \notin PendingKeys(pending))
    /\ [][\A s \in Sessions :
            (pc[s] = "expired" /\ pc'[s] = "done") =>
                out'[s] = <<ErrorFrame(SentId(first[s]), MsgTimedOut)>>]_vars

\* A caller that sent id 7 has the timeout error while the extension is still
\* connected.
C6_Witness ==
    \E s \in Sessions :
        /\ pc[s] = "done" /\ out[s] = <<ErrorFrame(7, MsgTimedOut)>>
        /\ extension_tx # <<>>

\* C7: every caller whose request is in the pending map when the extension
\* task drains it (its reply slot then holds the disconnect error) is sent the
\* "Extension disconnected" error under its own id.
C7_PendingCallersGetDisconnect ==
    \A s \in Sessions :
        (pc[s] = "done" /\ response[s] # <<>> /\ IsError(response[s][1], MsgDisconnected)) =>
            out[s] = <<ErrorFrame(SentId(first[s]), MsgDisconnected)>>

\* C8: once an extension task has finished its clean-up and no extension is
\* connected, the bridge still accepts connections and a caller that connects
\* is answered with the "Extension not connected" error.
C8_AfterDisconnect ==
    [][((\E e \in Extensions : epc[e] = "gone")
        /\ (\A e \in Extensions : epc[e] \in {"idle", "gone"})) =>
          /\ is_bridge_running
          /\ \A s \in Sessions :
                (pc[s] = "idle" /\ first'[s].type = "cli") =>
                    /\ pc'[s] = "done"
                    /\ out'[s] = <<ErrorFrame(SentId(first'[s]), MsgNotConnected)>>]_vars

\* A caller was admitted, the extension disconnected, the next caller has the
\* not-connected error and the bridge is still running.
C8_Witness ==
    \E s, t \in Sessions :
        /\ s < t /\ Admitted(s)
        /\ \E e \in Extensions : epc[e] = "gone"
        /\ \A e \in Extensions : epc[e] \in {"idle", "gone"}
        /\ pc[t] = "done" /\ out[t] # <<>> /\ IsError(out[t][1], MsgNotConnected)
        /\ is_bridge_running

\* C9: routing an extension frame whose id is not a key of the pending map
\* changes neither the pending map, the channel, the id counter nor any caller
\* session (its reply slot, its socket, its position).
C9_UnknownIdDropped ==
    [][\A e \in Extensions :
          (/\ frame[e] # <<>>
           /\ frame'[e] = <<>>
           /\ frame[e][1].id \notin PendingKeys(pending)) =>
              UNCHANGED <<pending, extension_tx, next_id, pc, request_id, response, out>>]_vars

\* The read loop holds a frame for a RequestId that was allocated and has
\* timed out, while another caller is waiting.
C9_Witness ==
    \E e \in Extensions, s, t \in Sessions :
        /\ frame[e] # <<>>
        /\ request_id[s] = <<frame[e][1].id>> /\ pc[s] = "done"
        /\ frame[e][1].id \notin PendingKeys(pending)
        /\ pc[t] = "waiting" /\ response[t] = <<>>

\* C10: the channel belongs to an extension whose first frame carried the
\* session token, and a cli first frame with a missing or different token gets
\* no RequestId and no command forwarded.
C10_TokenGatesAdmission ==
    /\ \A e \in Extensions :
          extension_tx = <<e>> => efirst[e].token = <<SessionToken>>
    /\ \A s \in Sessions :
          (first[s].type = "cli" /\ first[s].token # <<SessionToken>>) =>
              /\ request_id[s] = <<>>
              /\ pc[s] # "waiting"

Records(sc) == <<token_file[sc], port_file[sc], pid_file[sc]>>
RecordsGone(sc) == Records(sc) = <<<<>>, <<>>, <<>>>>
\* serve_isolated went through the multi-way wait (Running) and recorded why it stops.
ReachedRunning == reason # <<>>
ReasonIs(kind) == reason # <<>> /\ reason[1].kind = kind

\* C12: when serve_isolated stops because the bridge task completed with an
\* error it returns that error unchanged; when it stops because of a signal or
\* because the browser exited it returns success; and the value is returned
\* only after the cleanup step has run (the isolated records are gone in the
\* state the return is made from).
C12_ReturnsBridgeErrorOrSuccess ==
    /\ []((opc = "returned" /\ ReachedRunning) =>
            /\ (ReasonIs("BridgeExited") /\ ~reason[1].r.panicked /\ ~reason[1].r.inner.ok)
                  => result = <<reason[1].r.inner>>
            /\ (ReasonIs("Signal") \/ ReasonIs("ChromeExited")) => result = <<OkUnit>>)
    /\ [][(ReachedRunning /\ result = <<>> /\ result' # <<>>) =>
              /\ opc = "return"
              /\ RecordsGone("isolated")]_vars

C12_Witness ==
    /\ opc = "returned"
    /\ ReasonIs("BridgeExited")
    /\ result = <<Err(MsgAcceptFailed)>>
    /\ RecordsGone("isolated")

\* C13: whenever serve_isolated reached Running and has returned, whatever the
\* shutdown reason, the isolated token, port and pid records are all deleted.
C13_RecordsDeletedOnReturn ==
    (opc = "returned" /\ ReachedRunning) =>
        /\ token_file["isolated"] = <<>>
        /\ port_file["isolated"] = <<>>
        /\ pid_file["isolated"] = <<>>

C13_Witness ==
    /\ opc = "returned"
    /\ ReasonIs("Signal")
    /\ shutdown_sent
    /\ pid_file["isolated"] = <<>>
    /\ btask = "serving"

\* C14: the teardown steps of serve_isolated (the cleanup step and the
\* load-failure unwind) delete the three isolated records and leave the
\* standard scope's token, port and pid records exactly as they were.
C14_TeardownLeavesStandardScope ==
    [][((opc = "cleanup" /\ opc' # "cleanup") \/ (opc = "load" /\ loaded' \in LoadFailures)) =>
          /\ RecordsGone("isolated")'
          /\ Records("standard")' = Records("standard")]_vars

C14_Witness ==
    /\ opc \in {"term", "return"}
    /\ ReachedRunning
    /\ RecordsGone("isolated")
    /\ token_file["standard"] = <<StdToken>>
    /\ pid_file["standard"] = <<PidRecord(StdPid, OtherPort)>>
    /\ StdPid \in alive

\* C15: the start-up sweep of either serve command deletes the other scope's
\* port, token and pid records if and only if the other scope's recorded pid
\* is not alive, and never deletes the token record that a serve process
\* which is alive in the other scope has written.
C15_SweepOnlyDeadScope ==
    [][/\ (opc = "sweep_other" /\ opc' # "sweep_other") =>
            /\ IF RecordedPidAlive("standard")
               THEN Records("standard")' = Records("standard")
               ELSE RecordsGone("standard")'
            /\ (StdPid \in alive /\ token_file["standard"] = <<StdToken>>) =>
                  token_file'["standard"] = <<StdToken>>
       /\ (scpc = "sweep_other" /\ scpc' # "sweep_other") =>
            /\ IF RecordedPidAlive("isolated")
               THEN Records("isolated")' = Records("isolated")
               ELSE RecordsGone("isolated")'
            /\ (opc # "returned" /\ token_file["isolated"] = <<SessionToken>>) =>
                  token_file'["isolated"] = <<SessionToken>>]_vars

\* C16: a failed token injection changes nothing but the report: the
\* orchestrator goes on to Running, no shutdown is signalled, the bridge task
\* and its listener are as before, the records are as before, and no signal
\* is sent to the browser.
C16_InjectionFailureNotFatal ==
    [][(opc = "inject" /\ injected' = "failed") =>
          /\ opc' = "running"
          /\ ~shutdown_sent'
          /\ UNCHANGED <<listening, btask, bresult>>
          /\ UNCHANGED storeVars
          /\ UNCHANGED <<alive, signals, child, pipe>>]_vars

C16_Witness ==
    /\ opc = "running"
    /\ injected = "failed"
    /\ listening
    /\ token_file["isolated"] = <<SessionToken>>
    /\ pid_file["isolated"] = <<PidRecord(IsoPid, BridgePort)>>
    /\ child = <<ChromePid>>
    /\ ChromePid \in alive
    /\ signals = <<>>

\* C17: from a successful loadExtension exchange until the cleanup step starts
\* (token injection, the multi-way wait, the position before the cleanup) the
\* PipeKeepAlive holds the write end of the pipe and the browser has not read
\* end-of-input; at any time the browser has read end-of-input only if every
\* holder of the write end has dropped it.
C17_KeepAliveHeld ==
    /\ (loaded = "ok" /\ opc \in {"inject", "running", "cleanup"}) =>
            (pipe = "keepalive" /\ ~eof)
    /\ eof => pipe = "closed"

C17_Witness ==
    /\ loaded = "ok"
    /\ opc = "cleanup"
    /\ pipe = "keepalive"
    /\ ~eof
    /\ ChromePid \in alive

\* Both pid records are present and claim the port stop was given.
BothClaim ==
    /\ pid_file["isolated"] # <<>> /\ pid_file["isolated"][1].port = BridgePort
    /\ pid_file["standard"] # <<>> /\ pid_file["standard"][1].port = BridgePort
RecordedAlive(sc) == is_pid_alive(pid_file[sc][1].pid)
\* The stop command takes its resolution step.
Resolving == stpc = "resolve" /\ stpc' # "resolve"
OtherScope(sc) == IF sc = "isolated" THEN "standard" ELSE "isolated"

\* C18: when both pid records claim the requested port and both recorded pids
\* are alive, stop reports the refusal and returns: no signal is sent, no
\* process ends and no record is deleted.
C18_RefusesTwoLiveBridges ==
    [][(Resolving /\ BothClaim /\ RecordedAlive("isolated") /\ RecordedAlive("standard")) =>
          /\ status' = Append(status, "multiple")
          /\ stpc' = "done"
          /\ UNCHANGED <<pid_file, signals, alive>>]_vars

C18_Witness ==
    /\ stpc = "done"
    /\ status = <<"multiple">>
    /\ BothClaim
    /\ RecordedAlive("isolated") /\ RecordedAlive("standard")
    /\ signals = <<>>

\* The run of stop in hand resolved to the pid of one scope while the other
\* scope's record claims the port too and names a pid that is not alive.
OneOfTwoAlive ==
    /\ stpc \notin {"off", "resolve"}
    /\ resolved # <<>>
    /\ LET other == OtherScope(ScopeOf(resolved[1].is_isolated))
       IN  /\ pid_file[other] # <<>>
           /\ pid_file[other][1].port = BridgePort
           /\ ~is_pid_alive(pid_file[other][1].pid)
Sent(pid, sig) == \E i \in 1..Len(signals) : signals[i] = [pid |-> pid, sig |-> sig]

\* C19: when both pid records claim the requested port and exactly one
\* recorded pid is alive, stop resolves to the live pid and its scope; every
\* signal of that run goes to that pid, SIGTERM first and SIGKILL only when
\* the process is still alive at the probe after the wait; when stop reports
\* "stopped" the pid record of that scope is deleted; the other scope's pid
\* record is never changed and its dead pid is never signalled.
C19_StopsTheLiveOne ==
    [][/\ (Resolving /\ BothClaim /\ RecordedAlive("isolated") /\ ~RecordedAlive("standard")) =>
            /\ resolved' = <<Target(pid_file["isolated"][1].pid, TRUE)>>
            /\ UNCHANGED <<pid_file, signals>>
       /\ (Resolving /\ BothClaim /\ ~RecordedAlive("isolated") /\ RecordedAlive("standard")) =>
            /\ resolved' = <<Target(pid_file["standard"][1].pid, FALSE)>>
            /\ UNCHANGED <<pid_file, signals>>
       /\ OneOfTwoAlive =>
            LET pid == resolved[1].pid
                sc == ScopeOf(resolved[1].is_isolated)
            IN  /\ pid_file'[OtherScope(sc)] = pid_file[OtherScope(sc)]
                /\ signals' # signals =>
                      \/ /\ signals' = Append(signals, [pid |-> pid, sig |-> "SIGTERM"])
                         /\ ~Sent(pid, "SIGKILL")
                      \/ /\ signals' = Append(signals, [pid |-> pid, sig |-> "SIGKILL"])
                         /\ Sent(pid, "SIGTERM")
                         /\ stpc = "wait2"
                         /\ is_pid_alive(pid)
                /\ status' = Append(status, "stopped") => pid_file'[sc] = <<>>]_vars

C19_Witness ==
    /\ stpc = "done"
    /\ status = <<"stopped">>
    /\ resolved = <<Target(StdPid, FALSE)>>
    /\ signals = <<[pid |-> StdPid, sig |-> "SIGTERM"], [pid |-> StdPid, sig |-> "SIGKILL"]>>
    /\ pid_file["standard"] = <<>>
    /\ pid_file["isolated"] = <<PidRecord(IsoPid, BridgePort)>>
    /\ alive = {}

\* The run of stop in hand follows a run that reported "stopped" or "not running".
AfterCompletedStop == stops >= 2 /\ status[stops - 1] \in {"stopped", "not_running"}
\* The pid record of scope sc claims the port and names no live process.
StaleRecord(sc) ==
    /\ pid_file[sc] # <<>>
    /\ pid_file[sc][1].port = BridgePort
    /\ ~is_pid_alive(pid_file[sc][1].pid)

\* C20: after a run of stop on the port has reported "stopped" or "not
\* running", the next run reports "not running", sends no signal and leaves
\* the pid records and the processes as the earlier run left them.
C20_StopIsIdempotent ==
    /\ [](\A i \in 2..Len(status) :
            status[i - 1] \in {"stopped", "not_running"} => status[i] = "not_running")
    /\ [][AfterCompletedStop => UNCHANGED <<signals, pid_file, alive>>]_vars

\* C20 (amended): after a run of stop on the port has reported "stopped" or
\* "not running" and nothing listens on the port any more, the next run
\* reports "not running", sends no signal, ends no process, and changes no pid
\* record except that it may delete one that claims the port and names no
\* live process.
C20_StopIsIdempotentAmended ==
    /\ [](\A i \in 2..Len(status) :
            (status[i - 1] \in {"stopped", "not_running"} /\ ~listening) =>
                status[i] = "not_running")
    /\ [][(AfterCompletedStop /\ ~listening) =>
                /\ UNCHANGED <<signals, alive, owner, listening>>
                /\ \A sc \in Scopes :
                      \/ pid_file'[sc] = pid_file[sc]
                      \/ pid_file'[sc] = <<>> /\ StaleRecord(sc)]_vars

C20_Witness ==
    /\ stpc = "done"
    /\ status = <<"stopped", "not_running">>
    /\ signals = <<[pid |-> IsoPid, sig |-> "SIGTERM"]>>
    /\ ~listening
    /\ pid_file = NoRecords
    /\ resolved = <<Target(InvalidPid, FALSE)>>

\* ---------------------------------------------------------------- claim C21
\* What the last call of reader.read returned.
LastRead == consumed[Len(consumed)]
Rejected(kind) == rdpc = "done" /\ load_result = <<LoadError(kind, "")>>

\* C21: the pipe reader never holds more than 1,048,576 bytes; a NUL read
\* after at most that many bytes ends the reply without an error; a further
\* byte after exactly that many is answered with the size error, and only
\* then; end of pipe before a NUL is answered with an error.
C21_ReplyBounded ==
    /\ [](buf_len <= MAX_PIPE_RESPONSE_SIZE)
    /\ [](Rejected(MsgPipeTooLong) => LastRead = "byte" /\ buf_len = MAX_PIPE_RESPONSE_SIZE)
    /\ [][(rdpc = "read" /\ consumed' # consumed) =>
            LET r == consumed'[Len(consumed')]
            IN  /\ r = "nul" =>
                      rdpc' = "decode" /\ load_result' = <<>> /\ Len(payload') = 1
                /\ (r = "byte" /\ buf_len < MAX_PIPE_RESPONSE_SIZE) =>
                      rdpc' = "read" /\ load_result' = <<>> /\ buf_len' = buf_len + 1
                /\ (r = "byte" /\ buf_len = MAX_PIPE_RESPONSE_SIZE) =>
                      Rejected(MsgPipeTooLong)' /\ buf_len' = buf_len
                /\ r = "eof" => Rejected(MsgPipeClosed)']_vars

C21_Witness ==
    /\ Rejected(MsgPipeTooLong)
    /\ buf_len = MAX_PIPE_RESPONSE_SIZE
    /\ consumed = <<"byte", "byte">>

\* ---------------------------------------------------------------- claim C22
\* load_extension has returned after parsing the reply it read.
Parsed == rdpc = "done" /\ payload # <<>> /\ payload[1].utf8
HasStringId(r) == r.result_id # <<>> /\ r.result_id[1].str

\* C22: a reply with an error member fails with the load error that carries
\* error.message; a reply without error whose result.id is a string succeeds
\* with that id; a reply with neither, or that is no JSON, fails with an error
\* that carries the raw reply; a keep-alive is returned with a success only.
C22_ReplyClassified ==
    /\ Parsed =>
          LET r == payload[1]
              res == load_result[1]
          IN  /\ (r.json /\ r.error # <<>>) =>
                    /\ ~res.ok
                    /\ res.kind = MsgLoadUnpackedFailed
                    /\ r.error[1].str => res.detail = r.error[1].text
              /\ (r.json /\ r.error = <<>> /\ HasStringId(r)) =>
                    res.ok /\ res.ext_id = <<r.result_id[1].text>>
              /\ (~r.json \/ (r.error = <<>> /\ ~HasStringId(r))) =>
                    ~res.ok /\ res.detail = r.raw
    /\ load_result # <<>> =>
          (load_result[1].keepalive <=>
              (Parsed /\ load_result[1].ok /\ payload[1].error = <<>> /\ HasStringId(payload[1])))

C22_Witness ==
    /\ Parsed
    /\ payload[1].error = <<Message("Extension not found")>>
    /\ payload[1].result_id = <<>>
    /\ load_result = <<LoadError(MsgLoadUnpackedFailed, "Extension not found")>>

\* ---------------------------------------------------------------- claim C23
\* C23: a script is evaluated only in a target that is a service worker of
\* the Actionbook extension at chrome-extension://<id>/background.js, never
\* in a target of another extension; and when the listing holds no service
\* worker with that url shape, the lookup returns the no-target error and no
\* script is evaluated.
C23_OnlyActionbookTarget ==
    /\ \A i \in 1..Len(evaluated) :
          /\ SwFilter(evaluated[i])
          /\ evaluated[i].host = ActionbookExtension
    /\ (found # <<>> /\ found[1].err # MsgListFailed /\ \A i \in 1..Len(targets) : ~SwFilter(targets[i])) =>
          found = <<NotFound(MsgNoTarget)>> /\ evaluated = <<>>

\* ---------------------------------------------------------------- claim C24
\* The sessions whose reply slot is in the pending map.
PendingSessions == {x[2] : x \in pending}

\* C24: when an extension registers while a channel exists, the step that
\* replaces the channel leaves the pending map empty and has put the
\* disconnect error into the reply slot of every session that was in it.
C24_ReplaceDrainsPending ==
    [][(extension_tx # <<>> /\ extension_tx' # <<>> /\ extension_tx' # extension_tx) =>
          /\ pending' = {}
          /\ \A s \in PendingSessions :
                pc[s] # "done" => response'[s] = <<ErrorFrame(0, MsgDisconnected)>>]_vars

\* ---------------------------------------------------------------- claim C25
\* C25: a present channel belongs to an extension whose socket is open or
\* whose close is being handled, and the clean-up after the close of another
\* extension's socket leaves the channel, the pending map and the reply slots
\* as they are.
C25_ChannelOwnedBySocket ==
    /\ [](extension_tx # <<>> => epc[extension_tx[1]] \in {"reading", "closing"})
    /\ [][\A e \in Connections :
            (epc[e] = "closing" /\ epc'[e] = "gone"
                /\ extension_tx # <<>> /\ extension_tx[1] # e) =>
            UNCHANGED <<extension_tx, pending, response>>]_vars

\* ---------------------------------------------------------------- claim C26
\* The request of session s is outstanding: admitted, no outcome produced yet.
Outstanding(s) == pc[s] = "waiting" /\ response[s] = <<>>

\* C26: the pending map holds one reply slot per RequestId, each of a session
\* that was admitted under that id, has not completed and has no outcome in
\* its slot yet; every outstanding request has its entry; a session that has
\* completed has none.
C26_PendingMatchesOutstanding ==
    /\ Cardinality(PendingKeys(pending)) = Cardinality(pending)
    /\ \A x \in pending :
          /\ x[1] < next_id
          /\ request_id[x[2]] = <<x[1]>>
          /\ pc[x[2]] \in {"waiting", "timedout"}
          /\ response[x[2]] = <<>>
    /\ \A s \in Sessions :
          /\ Outstanding(s) => <<request_id[s][1], s>> \in pending
          /\ pc[s] \in {"expired", "done"} => s \notin PendingSessions

C26_Witness ==
    \E s, t \in Sessions :
        /\ pc[s] = "done"
        /\ request_id[s] # <<>>
        /\ Outstanding(t)
        /\ pending = {<<request_id[t][1], t>>}

\* ---------------------------------------------------------------- claim C27
\* C27: a caller is sent at most one frame and its reply slot is produced
\* into at most once; when the extension side (a reply or the disconnect
\* drain) removed the entry and filled the slot, the frame the caller is sent
\* is the slot's content under the caller's id, and when the slot stayed
\* empty the frame of an admitted caller is the timeout error.
C27_FirstRemoverWins ==
    /\ [](\A s \in Sessions : Len(out[s]) <= 1)
    /\ [](\A s \in Sessions :
            (pc[s] = "done" /\ request_id[s] # <<>>) =>
                out[s] = IF response[s] # <<>>
                         THEN <<RewriteId(response[s][1], CliId(first[s]))>>
                         ELSE <<ErrorFrame(CliId(first[s]), MsgTimedOut)>>)
    /\ [][\A s \in Sessions : response[s] # <<>> => response'[s] = response[s]]_vars

\* ---------------------------------------------------------------- claim C28
\* The command frames handed to extension e's channel that are written or
\* still queued, in the order they were enqueued.
Handed(e) == written[e] \o chan[e]

\* C28: the frames written to an extension's socket followed by the frames
\* still queued carry strictly increasing RequestIds, the order in which the
\* callers' critical sections enqueued them (no frame twice, none out of
\* order), and the socket gets a new frame only as the head of the queue.
C28_WrittenInEnqueueOrder ==
    /\ [](\A e \in Connections :
            \A i, j \in 1..Len(Handed(e)) : i < j => Handed(e)[i].id < Handed(e)[j].id)
    /\ [][\A e \in Connections :
            \/ written'[e] = written[e]
            \/ /\ chan[e] # <<>>
               /\ written'[e] = Append(written[e], Head(chan[e]))
               /\ chan'[e] = Tail(chan[e])]_vars

C28_Witness ==
    \E e \in Connections :
        /\ Len(written[e]) = 2
        /\ written[e][1].id = 1
        /\ written[e][2].id = 2
        /\ \E s, t \in Sessions : s # t /\ request_id[s] = <<1>> /\ request_id[t] = <<2>>

\* ---------------------------------------------------------------- claim C29
\* The OrchestratorState a position of serve_isolated belongs to, as its place
\* in the order Preflight, BrowserStarting, BridgeStarting, ExtensionLoading,
\* TokenInjecting, Running, ShuttingDown; the last place is the return.
OrchestratorStates ==
    << {"preflight"}, {"probe", "launch"}, {"sweep", "sweep_other", "records", "wait_bridge"},
       {"load"}, {"inject"}, {"running"}, {"cleanup", "term", "grace", "return"}, {"returned"} >>
StateOf(p) == CHOOSE i \in 1..Len(OrchestratorStates) : p \in OrchestratorStates[i]
ShuttingDown == StateOf("cleanup")
\* A failure is at hand: the load failed or an error is being returned.
Faulted == loaded \in LoadFailures \/ (result # <<>> /\ ~result[1].ok)

\* C29: every step of serve_isolated stays in its state or moves to a later
\* one, and a step that passes over a state ends in ShuttingDown or at the
\* return, with a failure at hand.
C29_ForwardOnly ==
    [][/\ StateOf(opc') >= StateOf(opc)
       /\ StateOf(opc') > StateOf(opc) + 1 => (StateOf(opc') >= ShuttingDown /\ Faulted')]_vars

C29_Witness ==
    /\ opc = "returned"
    /\ result = <<OkUnit>>
    /\ ReasonIs("Signal")
    /\ loaded = "ok"
    /\ injected = "ok"
    /\ child = <<ChromePid>>
    /\ Sent(ChromePid, "SIGTERM")

\* ---------------------------------------------------------------- claim C30
\* serve_isolated has returned an error without having reached Running.
FailedBeforeRunning ==
    /\ opc = "returned"
    /\ ~ReachedRunning
    /\ result # <<>>
    /\ ~result[1].ok
    /\ result[1].err \in {MsgTokenWriteFailed, MsgBridgeTimeout}
                          \cup {MsgLoadFailed(how) : how \in LoadFailures}

\* C30: when serve_isolated has returned the error of a token-record write
\* failure, of the bridge readiness timeout or of a failed load, the isolated
\* records are deleted, a spawned bridge task has been sent the shutdown
\* signal, and a browser it launched has been sent the terminate signal.
C30_FailureUnwinds ==
    FailedBeforeRunning =>
        /\ RecordsGone("isolated")
        /\ btask # "none" => shutdown_sent
        /\ child # <<>> => Sent(child[1], "SIGTERM")

\* ---------------------------------------------------------------- claim C31
\* The step sends the signal sig to the process pid.
Sends(pid, sig) == signals' = Append(signals, [pid |-> pid, sig |-> sig])

\* C31: every signal serve_isolated sends goes to the browser this run
\* launched, and none is sent when the shutdown reason is ChromeExited or when
\* the browser was reused (no child of this run).
C31_TerminateOnlyOwnBrowser ==
    /\ []((ReasonIs("ChromeExited") \/ already_running \/ child = <<>>) => signals = <<>>)
    /\ [][signals' # signals =>
             /\ ~ReasonIs("ChromeExited")
             /\ ~already_running
             /\ child # <<>>
             /\ \E sig \in {"SIGTERM", "SIGKILL"} : Sends(child[1], sig)]_vars

\* The launched browser exited while serve_isolated was running; the teardown
\* is over and nothing was signalled.
C31_Witness ==
    /\ opc = "returned"
    /\ ReasonIs("ChromeExited")
    /\ child = <<ChromePid>>
    /\ RecordsGone("isolated")
    /\ signals = <<>>

\* ---------------------------------------------------------------- claim C32
\* C32: the force-kill is sent only from the end of the grace period, after
\* the graceful terminate was sent to the same process, and the step that
\* ends the grace period sends it exactly when the probed process is alive.
C32_ForceKillAfterGraceIffAlive ==
    [][/\ (\E p \in {ChromePid, IsoPid, StdPid} : Sends(p, "SIGKILL")) =>
             /\ opc = "grace"
             /\ Sends(child[1], "SIGKILL")
             /\ signals # <<>>
             /\ signals[Len(signals)] = [pid |-> child[1], sig |-> "SIGTERM"]
       /\ (opc = "grace" /\ opc' # "grace") =>
             (Sends(child[1], "SIGKILL") <=> is_pid_alive(child[1]))
       /\ (opc = "grace" /\ opc' # "grace" /\ ~is_pid_alive(child[1])) =>
             UNCHANGED signals]_vars

\* The browser ignored the graceful terminate and was force-killed.
C32_Witness ==
    /\ opc = "returned"
    /\ child = <<ChromePid>>
    /\ signals = << [pid |-> ChromePid, sig |-> "SIGTERM"], [pid |-> ChromePid, sig |-> "SIGKILL"] >>
    /\ ChromePid \notin alive

\* The browser exited during the grace period and was not force-killed.
ExitedInGrace ==
    /\ opc = "returned"
    /\ signals = << [pid |-> ChromePid, sig |-> "SIGTERM"] >>
    /\ ChromePid \notin alive

\* ---------------------------------------------------------------- claim C33
\* wait_for_bridge gave up.
BridgeTimedOut == result = <<Err(MsgBridgeTimeout)>>

\* C33: serve_isolated passes the readiness wait only on a probe that finds
\* the bridge listening, and the load is attempted only past the wait; the
\* wait makes at most MaxProbes probes, and gives up exactly after MaxProbes
\* failed ones, with nothing loaded and nothing injected.
C33_LoadAfterBridgeReady ==
    /\ [](probes <= MaxProbes)
    /\ [](BridgeTimedOut =>
            /\ opc = "returned"
            /\ probes = MaxProbes
            /\ loaded = "none" /\ ext_id = <<>> /\ injected = "none")
    /\ [][/\ (opc = "wait_bridge" /\ opc' = "load") => is_bridge_running
          /\ (opc' = "load" /\ opc # "load") => opc = "wait_bridge"
          /\ loaded' # loaded => opc = "load"
          /\ (opc = "wait_bridge" /\ opc' = "returned") =>
                (~is_bridge_running /\ probes' = MaxProbes /\ BridgeTimedOut')]_vars

\* Twenty probes found nothing listening: the timeout error is returned.
C33_Witness ==
    /\ BridgeTimedOut
    /\ probes = MaxProbes
    /\ child = <<ChromePid>>
    /\ pipe = "closed"

\* The bridge was found listening after some failed probes and the load went through.
LoadedAfterRetries ==
    /\ probes > 0
    /\ loaded = "ok"

\* ---------------------------------------------------------------- claim C34
\* C34: whenever a step of stop removes a scope's pid record, the recorded
\* pid is invalid or its process is not alive (probed dead, gone at the
\* terminate signal, or ended by this stop); the record of a live process
\* stays.
C34_LiveRecordKept ==
    [][\A sc \in Scopes :
          (pid_file[sc] # <<>> /\ pid_file'[sc] = <<>>) =>
              \/ pid_file[sc][1].pid = InvalidPid
              \/ ~is_pid_alive(pid_file[sc][1].pid)]_vars

\* stop found nothing listening on the port while the recorded process is
\* alive: it reported not running and left the record.
C34_Witness ==
    /\ stpc = "done"
    /\ resolved # <<>>
    /\ status # <<>> /\ status[Len(status)] = "not_running"
    /\ ~listening
    /\ is_pid_alive(resolved[1].pid)
    /\ pid_file[ScopeOf(resolved[1].is_isolated)] = <<PidRecord(resolved[1].pid, BridgePort)>>
    /\ signals = <<>>

\* ---------------------------------------------------------------- claim C35
\* evaluate_in_target has returned after the connection was opened.
ReturnedAfterOpen == evpc = "done" /\ ws_stream # "none"

ClosedOncePastSend ==
    (ReturnedAfterOpen /\ eval_result # <<EvalErr(MsgWsSend)>>) => ws_stream = "closed"

\* ---------------------------------------------------------------- claim C36
\* A target of the listing the lookup by extension id can use.
Usable(t, xid) == IdFilter(t, xid) /\ t.ws # ""
\* The lookup for xid has run over the listing.
LookedUp(xid) == tpc = "done" /\ evaluated = <<xid>>

\* C36: the lookup by extension id returns a debug URL exactly when the
\* listing holds a usable target, and the URL is that of a usable target.
C36_FindsUsableTarget ==
    \A xid \in {ActionbookExtension, OtherExtension} :
        LookedUp(xid) =>
            /\ found[1].ok <=> \E i \in 1..Len(targets) : Usable(targets[i], xid)
            /\ found[1].ok =>
                  \E i \in 1..Len(targets) :
                      Usable(targets[i], xid) /\ targets[i].ws = found[1].url

\* What the lookup returns is the URL of a usable target, and it fails when
\* there is none.
FoundIsUsable ==
    \A xid \in {ActionbookExtension, OtherExtension} :
        (LookedUp(xid) /\ found[1].ok) =>
            \E i \in 1..Len(targets) : Usable(targets[i], xid) /\ targets[i].ws = found[1].url

\* ---------------------------------------------------------------- claim C37
\* Both signs of an isolated browser of an earlier run are there.
Ours == singleton_lock /\ cdp_up

\* C37: serve_isolated goes on without a child of its own, without a pipe
\* and without a load exactly when the lock exists and the debugging port
\* answers; otherwise the step past the probe launches a browser (or returns
\* the launch error).
C37_ReuseIffLockAndPort ==
    /\ [](already_running => (Ours /\ child = <<>> /\ pipe = "none" /\ loaded = "none"))
    /\ [](child # <<>> => ~Ours)
    /\ [][(opc = "launch" /\ opc' # "launch") =>
             IF Ours
             THEN child' = <<>> /\ alive' = alive /\ opc' = "sweep"
             ELSE \/ child' = <<ChromePid>> /\ ChromePid \in alive' /\ opc' = "sweep"
                  \/ child' = <<>> /\ opc' = "returned" /\ result' = <<Err(MsgLaunchFailed)>>]_vars

\* The browser of an earlier run was reused: no child, nothing loaded, the
\* token injected into the running extension.
C37_Witness ==
    /\ opc = "running"
    /\ Ours
    /\ already_running
    /\ child = <<>>
    /\ loaded = "none"
    /\ injected = "ok"

\* The lock is there but the port does not answer: a browser was launched.
LaunchedDespiteLock ==
    /\ singleton_lock /\ ~cdp_up
    /\ child = <<ChromePid>>
    /\ loaded = "ok"

\* ---------------------------------------------------------------- claim C38
\* Session s is admitted by this step.
AdmittedNow(s) == request_id[s] = <<>> /\ request_id'[s] # <<>>
\* This step routes the frame extension e sent, and the frame carries the
\* RequestId of session s, which is waiting without an outcome.
RoutesReplyFor(e, s) ==
    /\ frame[e] # <<>>
    /\ frame'[e] = <<>>
    /\ Outstanding(s)
    /\ AsU64(frame[e][1].id) = request_id[s]

\* C38: the step that admits a caller puts its entry into the pending map,
\* no command of that RequestId (or a later one) was handed to an extension
\* before, and the command it hands over is the last of the queue; a frame
\* that carries the RequestId of a caller waiting without an outcome is
\* delivered to that caller's reply slot.
C38_ReplyNeverUnknown ==
    [][/\ \A s \in Sessions :
             AdmittedNow(s) =>
                 /\ <<request_id'[s][1], s>> \in pending'
                 /\ \A e \in Connections :
                       /\ \A i \in 1..Len(Handed(e)) : Handed(e)[i].id < request_id'[s][1]
                       /\ chan'[e] # chan[e] =>
                             chan'[e] = Append(chan[e], CommandFrame(request_id'[s][1], first'[s].method))
       /\ \A e \in Connections, s \in Sessions :
             RoutesReplyFor(e, s) =>
                 /\ response'[s] = <<frame[e][1]>>
                 /\ request_id[s][1] \notin PendingKeys(pending')]_vars

\* The reply to the second caller's command is in its slot while the first
\* caller still waits, both commands written to the extension.
C38_Witness ==
    \E e \in Connections, s, t \in Sessions :
        /\ request_id[s] = <<1>> /\ Outstanding(s)
        /\ request_id[t] = <<2>> /\ pc[t] = "waiting"
        /\ response[t] = <<ResultFrame(2, 2)>>
        /\ Len(written[e]) = 2
        /\ pending = {<<1, s>>}

\* ---------------------------------------------------------------- claim C39
\* C39: stop sends a signal only to the pid it resolved, which is positive:
\* SIGTERM from the position reached only by finding the port listening in
\* this invocation, SIGKILL only past that SIGTERM; the step that finds
\* nothing listening ends the invocation and sends nothing.
C39_SignalOnlyIfListening ==
    [][/\ signals' # signals =>
             /\ stpc \in {"term", "wait2"}
             /\ resolved # <<>>
             /\ resolved[1].pid > InvalidPid
             /\ Sends(resolved[1].pid, IF stpc = "term" THEN "SIGTERM" ELSE "SIGKILL")
       /\ (stpc' = "term" /\ stpc # "term") => (stpc = "probe" /\ is_bridge_running)
       /\ (stpc' = "wait1" /\ stpc # "wait1") =>
             (stpc = "term" /\ Sends(resolved[1].pid, "SIGTERM"))
       /\ (stpc' = "wait2" /\ stpc # "wait2") => stpc = "wait1"
       /\ (stpc \in {"probe", "no_record"} /\ stpc' # stpc /\ ~is_bridge_running) =>
             (stpc' = "done" /\ UNCHANGED signals)]_vars

\* stop found the bridge listening, sent SIGTERM to the recorded pid and,
\* the process still being there after the waits, SIGKILL.
C39_Witness ==
    /\ stpc = "done"
    /\ resolved # <<>>
    /\ signals = << [pid |-> resolved[1].pid, sig |-> "SIGTERM"],
                    [pid |-> resolved[1].pid, sig |-> "SIGKILL"] >>
    /\ status # <<>> /\ status[Len(status)] = "stopped"

\* Nothing listens on the port, the recorded pid is alive: not running is
\* reported and no signal was sent.
AliveButNotListening ==
    /\ stpc = "done"
    /\ resolved # <<>>
    /\ ~listening
    /\ is_pid_alive(resolved[1].pid)
    /\ signals = <<>>

\* ---------------------------------------------------------------- claim C40
\* C40: the reason is recorded once, by the step that leaves the multi-way
\* wait, and never changes; with a reused browser it is never ChromeExited;
\* when it is ChromeExited or Signal the shutdown signal was sent with it, so
\* before the teardown deletes the records.
C40_OneReason ==
    /\ [](Len(reason) <= 1)
    /\ [](already_running => ~ReasonIs("ChromeExited"))
    /\ []((ReasonIs("ChromeExited") \/ ReasonIs("Signal")) => shutdown_sent)
    /\ [][/\ reason' # reason =>
               /\ reason = <<>>
               /\ opc = "running" /\ opc' = "cleanup"
               /\ reason'[1].kind \in {"BridgeExited", "ChromeExited", "Signal"}
          /\ (opc = "running" /\ opc' # "running") => reason' # reason
          /\ (opc = "cleanup" /\ opc' # "cleanup" /\ ~ReasonIs("BridgeExited")) =>
               (shutdown_sent /\ RecordsGone("isolated")')]_vars

\* A reused browser, a signal: the bridge was told to stop and the records
\* are gone.
C40_Witness ==
    /\ opc = "returned"
    /\ already_running
    /\ ReasonIs("Signal")
    /\ shutdown_sent
    /\ btask = "done"
    /\ RecordsGone("isolated")

====
